---- MODULE Spec2Model ----
(***************************************************************************)
(* CryptoAdvisor backend: the dashboard aggregation route, the three       *)
(* provider adapters (CoinGecko prices, CryptoPanic news, OpenRouter       *)
(* insight) with their fallbacks, the JWT middleware and the user store.   *)
(*                                                                         *)
(* JavaScript values that may be null, undefined or a pending promise are  *)
(* records with a `kind` field.  Text built from template literals is a    *)
(* sequence of tokens (the interpolated values are tokens of their own).   *)
(* Times are whole hours before Date.now() (publishedAt) or the request's  *)
(* own step counter (updatedAt / generatedAt).                             *)
(***************************************************************************)
EXTENDS Integers, Sequences, FiniteSets, TLC

VARIABLES users, everIds, tokens, apiKey, req, probe, prefReply, feedbackStore, Feedback, fbReply, signups

vars == <<users, everIds, tokens, apiKey, req, probe, prefReply, feedbackStore, Feedback, fbReply, signups>>

(***************************************************************************)
(* Bounds of the model                                                     *)
(***************************************************************************)
\* longest asset list handed to an adapter on its own
MaxAssets == 2

\* asset symbols a caller may name: mapped ones, one without a provider id,
\* and a lower-case spelling (the adapters upper-case before the lookup)
Symbols == {"BTC", "ETH", "SOL", "DOGE", "btc"}

\* the default admin and one identifier for a later signup
UserIds == {"admin", "u1"}
Emails == {"admin@example.com", "ann@x.io"}
Slots == {"a", "b"}

(***************************************************************************)
(* Sequence helpers (Array.prototype.join / slice, Object.keys)            *)
(***************************************************************************)
Range(s) == {s[i] : i \in 1..Len(s)}

\* first occurrence of every element, in order (the keys of a JSON object)
RECURSIVE Dedup(_)
Dedup(s) ==
  IF s = <<>> THEN <<>>
  ELSE <<Head(s)>> \o Dedup(SelectSeq(Tail(s), LAMBDA x : x # Head(s)))

\* tokens of s.join(sep)
RECURSIVE Join(_, _)
Join(s, sep) ==
  IF s = <<>> THEN <<>>
  ELSE IF Len(s) = 1 THEN <<s[1]>>
  ELSE <<s[1], sep>> \o Join(Tail(s), sep)

Slice(s, n) == IF Len(s) <= n THEN s ELSE SubSeq(s, 1, n)

SeqsUpTo(S, n) == UNION {[1..k -> S] : k \in 0..n}

\* String.prototype.toUpperCase on the symbols of the model
ToUpper(s) == IF s = "btc" THEN "BTC" ELSE s

(***************************************************************************)
(* JavaScript values                                                       *)
(***************************************************************************)
Null == [kind |-> "null"]
Undefined == [kind |-> "undefined"]
Promise(v) == [kind |-> "promise", value |-> v]
Obj(v) == [kind |-> "object", value |-> v]

\* an argument that is an array, or was not passed at all
Arr(s) == [present |-> TRUE, array |-> TRUE, list |-> s]
Missing == [present |-> FALSE, array |-> FALSE, list |-> <<>>]
\* a truthy value that is not an array, such as the string 'BTC'
NotArray(v) == [present |-> TRUE, array |-> FALSE, list |-> <<v>>]

\* !x for the values above: a pending promise is an object, hence truthy
Falsy(x) == x.kind \in {"null", "undefined"}

\* the settled state of an async function's promise
Resolved(v) == [state |-> "resolved", value |-> v]
Rejected(m) == [state |-> "rejected", value |-> [message |-> m]]

\* how a try block ended
Returned(v) == [threw |-> FALSE, value |-> v]
Threw(m) == [threw |-> TRUE, value |-> [message |-> m]]

(***************************************************************************)
(* Price adapter (CoinGecko)                                               *)
(***************************************************************************)
coinIdMap ==
  [BTC |-> "bitcoin", ETH |-> "ethereum", SOL |-> "solana", ADA |-> "cardano",
   DOT |-> "polkadot", MATIC |-> "matic-network", AVAX |-> "avalanche-2",
   BNB |-> "binancecoin", XRP |-> "ripple"]

\* what the provider may do with a call that it answers
PriceOutcomes == {"ok", "nousd", "null", "error"}

\* the map without .filter(Boolean): an unmapped symbol stays as undefined
PriceIds_unfiltered(coinIds) ==
  [i \in 1..Len(coinIds) |->
     IF ToUpper(coinIds[i]) \in DOMAIN coinIdMap
     THEN coinIdMap[ToUpper(coinIds[i])] ELSE "undefined"]

\* coinIds.map(symbol => coinIdMap[symbol.toUpperCase()]).filter(Boolean)
PriceIds(coinIds) ==
  LET mapped == SelectSeq(coinIds, LAMBDA s : ToUpper(s) \in DOMAIN coinIdMap)
  IN [i \in 1..Len(mapped) |-> coinIdMap[ToUpper(mapped[i])]]

\* Object.keys(coinIdMap).find(key => coinIdMap[key] === id) || id
SymbolOfId(id) ==
  IF \E k \in DOMAIN coinIdMap : coinIdMap[k] = id
  THEN CHOOSE k \in DOMAIN coinIdMap : coinIdMap[k] = id
  ELSE id

\* response.data of an answered call: one entry per requested id
PriceData(ids, outcome) ==
  LET keys == Dedup(ids)
  IN [i \in 1..Len(keys) |->
        [id |-> keys[i], usd |-> IF outcome = "ok" THEN "quote" ELSE "undefined"]]

\* the try block of getCoinPrices; `outcome` is read only if a call goes out
getCoinPricesTry(coinIds, outcome) ==
  IF ~coinIds.present THEN Threw("Cannot read properties of undefined")
  ELSE IF PriceIds(coinIds.list) = <<>> THEN Returned([coins |-> <<>>])
  ELSE IF outcome = "error" THEN Threw("Request failed")
  ELSE IF outcome = "null" THEN Threw("Cannot convert undefined or null to object")
  ELSE LET data == PriceData(PriceIds(coinIds.list), outcome)
       IN Returned([coins |->
            [i \in 1..Len(data) |->
               [id |-> data[i].id, symbol |-> SymbolOfId(data[i].id),
                price |-> data[i].usd, change24h |-> "number",
                change7d |-> "number"]]])

\* the catch block: empty data on error (graceful degradation)
getCoinPricesCatch(coinIds, outcome) ==
  Resolved([coins |-> <<>>, error |-> "Failed to fetch coin prices"])

getCoinPrices_nocatch(coinIds, outcome) ==
  LET t == getCoinPricesTry(coinIds, outcome)
  IN IF t.threw THEN Rejected(t.value.message) ELSE Resolved(t.value)

getCoinPrices(coinIds, outcome) ==
  LET t == getCoinPricesTry(coinIds, outcome)
  IN IF t.threw THEN getCoinPricesCatch(coinIds, outcome) ELSE Resolved(t.value)

\* does getCoinPrices reach its axios.get
PriceCallsOut(coinIds) == coinIds.present /\ PriceIds(coinIds.list) # <<>>

\* the outbound request of getCoinPrices: params.ids of its axios.get, if any
NoRequest == [called |-> FALSE, ids |-> <<>>]
PriceRequest(coinIds) ==
  IF PriceCallsOut(coinIds) THEN [called |-> TRUE, ids |-> PriceIds(coinIds.list)]
  ELSE NoRequest

(***************************************************************************)
(* News adapter (CryptoPanic) and its fallback generator                   *)
(***************************************************************************)
T(title, source) == [title |-> title, source |-> source]

newsTemplates ==
  [BTC |-> <<T("Bitcoin Price Analysis: Market Shows Strong Support Levels", "CryptoNews"),
             T("Institutional Investors Continue Bitcoin Accumulation", "CoinDesk"),
             T("Bitcoin Hash Rate Reaches All-Time High", "Blockchain.com"),
             T("Major Corporations Add Bitcoin to Treasury Reserves", "Forbes Crypto")>>,
   ETH |-> <<T("Ethereum Network Activity Reaches New Highs", "Ethereum Foundation"),
             T("DeFi Protocols on Ethereum See Increased TVL", "DeFi Pulse"),
             T("Ethereum Layer 2 Solutions Gain Traction", "Ethereum News"),
             T("NFT Market Shows Recovery Signs on Ethereum", "NFT Gators")>>,
   SOL |-> <<T("Solana Ecosystem Expands with New DeFi Projects", "Solana News"),
             T("Solana Network Performance Improvements Announced", "Solana Foundation"),
             T("Major DEX Launches on Solana Blockchain", "DeFi News")>>,
   ADA |-> <<T("Cardano Development Updates: Smart Contract Improvements", "Cardano Community"),
             T("Cardano Staking Rewards Reach New Milestone", "Cardano News")>>,
   DOT |-> <<T("Polkadot Parachain Auctions See High Participation", "Polkadot Network"),
             T("Cross-Chain Bridges Expand on Polkadot", "Crypto Briefing")>>,
   MATIC |-> <<T("Polygon Network Sees Record Transaction Volume", "Polygon News"),
               T("Major Gaming Projects Migrate to Polygon", "GameFi News")>>,
   AVAX |-> <<T("Avalanche Subnets Enable Custom Blockchain Solutions", "Avalanche News"),
              T("Avalanche DeFi Ecosystem Continues Growth", "DeFi Times")>>,
   BNB |-> <<T("BNB Chain Sees Increased Developer Activity", "BNB Chain News"),
             T("Binance Smart Chain Updates Improve Performance", "Binance Blog")>>,
   XRP |-> <<T("Ripple Legal Developments Impact XRP Market", "Crypto Legal"),
             T("XRP Payment Solutions Expand Globally", "Ripple News")>>]

generalNews ==
  <<T("Cryptocurrency Market Shows Bullish Momentum", "Market Watch"),
    T("Regulatory Clarity Improves for Crypto Industry", "Crypto Regulation"),
    T("Institutional Adoption of Crypto Accelerates", "Institutional Crypto"),
    T("DeFi Total Value Locked Reaches New Heights", "DeFi Analytics"),
    T("Crypto Exchanges Report Record Trading Volumes", "Exchange News")>>

\* articles.length < 10 / slice(0, 10)
MaxArticles == 10
\* Math.min(3, templates.length)
PerCurrency == 3

Min(a, b) == IF a < b THEN a ELSE b

\* newsTemplates[currency.toUpperCase()] || generalNews
TemplatesFor(currency) ==
  IF ToUpper(currency) \in DOMAIN newsTemplates
  THEN newsTemplates[ToUpper(currency)] ELSE generalNews

\* one pass of the inner for loop's body: push the template's article unless
\* its title was used for this currency; acc = [articles, usedTitles]
CurrencyStep(acc, currency, currencyIndex, i) ==
  LET templates == TemplatesFor(currency)
      template == templates[(i % Len(templates)) + 1]
      uniqueTitle == <<template.title, currency>>
  IN IF uniqueTitle \in acc.usedTitles THEN acc
     ELSE [articles |-> Append(acc.articles,
              [id |-> <<"fallback", currency, i>>,
               title |-> template.title,
               url |-> "https://cryptopanic.com",
               source |-> template.source,
               publishedAt |-> currencyIndex * 2 + i,
               votes |-> "random",
               currencies |-> <<currency>>]),
           usedTitles |-> acc.usedTitles \cup {uniqueTitle}]

\* the inner for loop over one currency, from index i (0-based); the
\* accumulator of the next pass is bound by value
RECURSIVE CurrencyLoop(_, _, _, _)
CurrencyLoop(acc, currency, currencyIndex, i) ==
  IF ~(i < Min(PerCurrency, Len(TemplatesFor(currency)))
       /\ Len(acc.articles) < MaxArticles)
  THEN acc
  ELSE CHOOSE r \in {CurrencyLoop(next, currency, currencyIndex, i + 1) :
                       next \in {CurrencyStep(acc, currency, currencyIndex, i)}} : TRUE

\* currencies.forEach((currency, currencyIndex) => ...), from position k (1-based)
RECURSIVE CurrenciesLoop(_, _, _)
CurrenciesLoop(acc, currencies, k) ==
  IF k > Len(currencies) THEN acc
  ELSE CHOOSE r \in {CurrenciesLoop(next, currencies, k + 1) :
                       next \in {CurrencyLoop(acc, currencies[k], k - 1, 0)}} : TRUE

\* one pass of generalNews.forEach's body for the template at position k
FillStep(acc, currencies, k) ==
  IF Len(acc.articles) >= MaxArticles \/ <<generalNews[k].title>> \in acc.usedTitles
  THEN acc
  ELSE [articles |-> Append(acc.articles,
           [id |-> <<"fallback", "general", k - 1>>,
            title |-> generalNews[k].title,
            url |-> "https://cryptopanic.com",
            source |-> generalNews[k].source,
            publishedAt |-> Len(acc.articles) + 1,
            votes |-> "random",
            currencies |-> IF Len(currencies) > 0 THEN currencies
                           ELSE <<"BTC", "ETH">>]),
        usedTitles |-> acc.usedTitles \cup {<<generalNews[k].title>>}]

\* generalNews.forEach((template, index) => ...), from position k (1-based)
RECURSIVE FillLoop(_, _, _)
FillLoop(acc, currencies, k) ==
  IF k > Len(generalNews) THEN acc
  ELSE CHOOSE r \in {FillLoop(next, currencies, k + 1) :
                       next \in {FillStep(acc, currencies, k)}} : TRUE

\* the position x takes in `sorted`: after every element not older than it
\* (a stable sort step)
InsertAt(sorted, x) ==
  Cardinality({i \in 1..Len(sorted) : sorted[i].publishedAt <= x.publishedAt})

InsertNewestFirst(sorted, x) ==
  [i \in 1..(Len(sorted) + 1) |->
     IF i <= InsertAt(sorted, x) THEN sorted[i]
     ELSE IF i = InsertAt(sorted, x) + 1 THEN x ELSE sorted[i - 1]]

\* the articles left in the order they were pushed
SortNewestFirst_asPushed(s) == s

\* articles.sort((a, b) => new Date(b.publishedAt) - new Date(a.publishedAt));
\* publishedAt counts the hours before now, so newest first is ascending
RECURSIVE SortNewestFirst(_)
SortNewestFirst(s) ==
  IF Len(s) = 0 THEN <<>>
  ELSE CHOOSE r \in {InsertNewestFirst(sorted, s[Len(s)]) :
                       sorted \in {SortNewestFirst(SubSeq(s, 1, Len(s) - 1))}} : TRUE

generateFallbackNews(currencies) ==
  CHOOSE r \in
    {Slice(SortNewestFirst(filled.articles), MaxArticles) :
       filled \in {IF Len(perCurrency.articles) < MaxArticles
                   THEN FillLoop(perCurrency, currencies, 1) ELSE perCurrency :
                     perCurrency \in {CurrenciesLoop([articles |-> <<>>, usedTitles |-> {}],
                                                     currencies, 1)}}} : TRUE

\* what the provider may do with a call that it answers in time
NewsOutcomes == {"ok", "empty", "malformed", "error"}

\* the ids of a provider answer that is longer than the adapter's cut
ManyIds == <<"m1", "m2", "m3", "m4", "m5", "m6", "m7", "m8", "m9", "m10", "m11", "m12">>

\* response.data.results of an answered call
LiveResults(outcome) ==
  IF outcome = "many"
  THEN [i \in 1..Len(ManyIds) |->
          [id |-> ManyIds[i], title |-> "Live headline", url |-> "https://news/m",
           source |-> "", published_at |-> i, votes |-> "positive",
           currencies |-> <<>>]]
  ELSE IF outcome = "ok"
  THEN <<[id |-> "n1", title |-> "Live headline one", url |-> "https://news/1",
          source |-> "CoinDesk", published_at |-> 1, votes |-> "positive",
          currencies |-> <<"BTC">>],
         [id |-> "n2", title |-> "Live headline two", url |-> "https://news/2",
          source |-> "", published_at |-> 3, votes |-> "positive",
          currencies |-> <<>>]>>
  ELSE <<>>

\* the map without the slice
LiveNews_unsliced(results) ==
  [i \in 1..Len(results) |->
     [id |-> results[i].id, title |-> results[i].title, url |-> results[i].url,
      source |-> IF results[i].source = "" THEN "CryptoPanic" ELSE results[i].source,
      publishedAt |-> results[i].published_at, votes |-> results[i].votes,
      currencies |-> results[i].currencies]]

\* news.slice(0, 10).map(article => ({...}))
LiveNews(results) ==
  LET first == Slice(results, MaxArticles)
  IN [i \in 1..Len(first) |->
        [id |-> first[i].id, title |-> first[i].title, url |-> first[i].url,
         source |-> IF first[i].source = "" THEN "CryptoPanic" ELSE first[i].source,
         publishedAt |-> first[i].published_at, votes |-> first[i].votes,
         currencies |-> first[i].currencies]]

\* the default parameter: currencies = []
NewsCurrencies(currencies) == IF currencies.present THEN currencies.list ELSE <<>>

\* the try block of getCryptoNews; `outcome` is read only if a call goes out
\* ("timeout" is axios giving up after `timeout: 5000`)
getCryptoNewsTry(currencies, contentTypes, key, outcome) ==
  IF ~key
  THEN LET fallbackNews == generateFallbackNews(NewsCurrencies(currencies))
       IN Returned([news |-> fallbackNews, count |-> Len(fallbackNews),
                    error |-> "Using fallback news data - CryptoPanic API key not configured"])
  ELSE IF outcome \in {"error", "timeout"} THEN Threw("Request failed")
  ELSE IF outcome = "malformed" THEN Threw("Invalid API response format")
  ELSE LET news == LiveNews(LiveResults(outcome))
       IN Returned([news |-> news, count |-> Len(news)])

\* the catch block: realistic fallback news based on the user's currencies
getCryptoNewsCatch(currencies, contentTypes, key, outcome) ==
  LET fallbackNews == generateFallbackNews(NewsCurrencies(currencies))
  IN Resolved([news |-> fallbackNews, count |-> Len(fallbackNews),
               error |-> "Using fallback news data - CryptoPanic API unavailable"])

getCryptoNews_rethrow(currencies, contentTypes, key, outcome) ==
  LET t == getCryptoNewsTry(currencies, contentTypes, key, outcome)
  IN IF t.threw THEN Rejected(t.value.message) ELSE Resolved(t.value)

getCryptoNews(currencies, contentTypes, key, outcome) ==
  LET t == getCryptoNewsTry(currencies, contentTypes, key, outcome)
  IN IF t.threw THEN getCryptoNewsCatch(currencies, contentTypes, key, outcome)
     ELSE Resolved(t.value)

\* does getCryptoNews reach its axios.get
NewsCallsOut(key) == key

(***************************************************************************)
(* Insight adapter (OpenRouter)                                            *)
(***************************************************************************)
InsightOutcomes == {"ok", "nocontent", "malformed", "error"}

\* fallback texts that leave the assets out
fallbackInsights_generic(p) ==
  << <<"As a ", p.investorType, ", stay informed and mind your risk tolerance.">>,
     <<"Today's crypto market shows interesting movements.">>,
     <<"Staying updated with ">> \o Join(p.contentTypes.list, " and ")
       \o <<" content is key to making informed decisions.">> >>

\* the three fallbackInsights template literals; a template that joins a
\* missing array throws while the array literal is being built
fallbackInsights(p) ==
  << <<"As a ", p.investorType, ", keep an eye on ">>
       \o Join(p.interestedAssets.list, " and ")
       \o <<". Market conditions are dynamic, so stay informed and make decisions based on your risk tolerance.">>,
     <<"Today's crypto market shows interesting movements in ">>
       \o Join(p.interestedAssets.list, ", ")
       \o <<". ", p.investorType, "s should monitor these assets closely.">>,
     <<"For ", p.investorType, "s interested in ">>
       \o Join(p.interestedAssets.list, " and ")
       \o <<", staying updated with ">>
       \o Join(p.contentTypes.list, " and ")
       \o <<" content is key to making informed decisions.">> >>

\* Math.floor(Math.random() * fallbackInsights.length)
RandChoices == 0..2

\* does building the prompt (try) or the fallback templates (catch) throw
InsightJoinThrows(p) == ~p.interestedAssets.present \/ ~p.contentTypes.present

\* the try block of generateInsight; `outcome` is read only if a call goes out
generateInsightTry(p, outcome, now) ==
  IF InsightJoinThrows(p) THEN Threw("Cannot read properties of undefined (reading 'join')")
  ELSE IF outcome = "error" THEN Threw("Request failed")
  ELSE IF outcome = "malformed" THEN Threw("Cannot read properties of undefined (reading '0')")
  ELSE Returned([insight |-> IF outcome = "ok" THEN <<"Live market insight.">>
                             ELSE <<"Market analysis is currently unavailable.">>,
                 generatedAt |-> now,
                 model |-> "meta-llama/llama-3.2-3b-instruct"])

\* the catch block of generateInsight
generateInsightCatch(p, outcome, rnd, now) ==
  IF InsightJoinThrows(p)
  THEN Rejected("Cannot read properties of undefined (reading 'join')")
  ELSE Resolved([insight |-> fallbackInsights(p)[rnd + 1],
                 generatedAt |-> now,
                 model |-> "fallback",
                 error |-> "Using fallback insight"])

generateInsight(p, outcome, rnd, now) ==
  LET t == generateInsightTry(p, outcome, now)
  IN IF t.threw THEN generateInsightCatch(p, outcome, rnd, now) ELSE Resolved(t.value)

\* does generateInsight reach its axios.post
InsightCallsOut(p) == ~InsightJoinThrows(p)

(***************************************************************************)
(* User store (MongoDB through Mongoose) and the User schema               *)
(***************************************************************************)
\* the schema defaults of `preferences`; investorType null is ""
SchemaPreferences ==
  [interestedAssets |-> <<>>, investorType |-> "", contentTypes |-> <<>>,
   completedOnboarding |-> FALSE]

\* userSchema.pre('save'): bcrypt.hash(this.password, salt)
bcryptHash(password) == <<"bcrypt", password>>

NewUser(id, userData) ==
  [kind |-> "object", _id |-> id, email |-> userData.email,
   password |-> bcryptHash(userData.password),
   firstName |-> userData.firstName, lastName |-> userData.lastName,
   profileImg |-> "", account |-> "basic", score |-> 0, isAdmin |-> FALSE, role |-> "user",
   preferences |-> SchemaPreferences]

\* initializeDefaultUser: the admin created on first startup
AdminUser ==
  [NewUser("admin", [email |-> "admin@example.com", password |-> "admin123",
                     firstName |-> "Admin", lastName |-> "User"])
   EXCEPT !.account = "pro", !.score = 10000, !.isAdmin = TRUE, !.role = "admin"]

\* async findById(id): the caller gets a promise of the document or null
findById(id) == Promise(users[id])

\* async findByEmail(email), already awaited
findByEmail(email) ==
  IF \E u \in UserIds : users[u].kind = "object" /\ users[u].email = email
  THEN users[CHOOSE u \in UserIds : users[u].kind = "object" /\ users[u].email = email]
  ELSE Null

\* async getPreferences(userId): a promise of null unless onboarding is complete
getPreferences(userId) ==
  Promise(IF users[userId].kind # "object" THEN Null
          ELSE IF ~users[userId].preferences.completedOnboarding THEN Null
          ELSE Obj(users[userId].preferences))

\* updatePreferences without completedOnboarding: true in the $set
updatePreferences_noFlag(userId, preferences) ==
  [users EXCEPT ![userId].preferences =
     [interestedAssets |-> preferences.interestedAssets.list,
      investorType |-> preferences.investorType,
      contentTypes |-> preferences.contentTypes.list,
      completedOnboarding |-> @.completedOnboarding]]

\* updatePreferences: $set of the three fields and completedOnboarding: true
updatePreferences(userId, preferences) ==
  [users EXCEPT ![userId].preferences =
     [interestedAssets |-> preferences.interestedAssets.list,
      investorType |-> preferences.investorType,
      contentTypes |-> preferences.contentTypes.list,
      completedOnboarding |-> TRUE]]

(***************************************************************************)
(* Preference validation                                                   *)
(***************************************************************************)
VALID_INVESTOR_TYPES ==
  <<"HODLer", "Day Trader", "NFT Collector", "DeFi Enthusiast", "Swing Trader">>

VALID_CONTENT_TYPES ==
  <<"Market News", "Charts", "Social", "Fun", "Technical Analysis", "Memes">>

\* interestedAssets.length > 10
MaxInterestedAssets == 10
\* contentTypes.length > 6
MaxContentTypes == 6

\* one entry of the errors array: the field it names and what is wrong
E(field, problem) == [field |-> field, problem |-> problem]

validatePreferences_firstError(preferences) ==
  IF ~preferences.interestedAssets.present
     \/ ~preferences.interestedAssets.array
     \/ Len(preferences.interestedAssets.list) = 0
     \/ Len(preferences.interestedAssets.list) > 10
  THEN <<E("interestedAssets", "is invalid")>>
  ELSE IF preferences.investorType \notin Range(VALID_INVESTOR_TYPES)
  THEN <<E("investorType", "is invalid")>>
  ELSE IF ~preferences.contentTypes.present
          \/ ~preferences.contentTypes.array
          \/ Len(preferences.contentTypes.list) = 0
          \/ Len(preferences.contentTypes.list) > 6
          \/ \E i \in 1..Len(preferences.contentTypes.list) :
               preferences.contentTypes.list[i] \notin Range(VALID_CONTENT_TYPES)
  THEN <<E("contentTypes", "is invalid")>>
  ELSE <<>>

validatePreferences_lax(preferences) ==
  IF ~preferences.interestedAssets.present
  THEN <<E("interestedAssets", "is required")>>
  ELSE <<>>

\* the errors array; investorType "" is a missing field
validatePreferences(preferences) ==
  (IF ~preferences.interestedAssets.present
   THEN <<E("interestedAssets", "is required")>>
   ELSE IF ~preferences.interestedAssets.array
        THEN <<E("interestedAssets", "must be an array")>>
   ELSE IF Len(preferences.interestedAssets.list) = 0
        THEN <<E("interestedAssets", "must contain at least 1 item")>>
   ELSE IF Len(preferences.interestedAssets.list) > MaxInterestedAssets
        THEN <<E("interestedAssets", "must contain at most 10 items")>>
   ELSE <<>>)
  \o
  (IF preferences.investorType = "" THEN <<E("investorType", "is required")>>
   ELSE IF preferences.investorType \notin Range(VALID_INVESTOR_TYPES)
        THEN <<E("investorType", "must be one of")>>
   ELSE <<>>)
  \o
  (IF ~preferences.contentTypes.present THEN <<E("contentTypes", "is required")>>
   ELSE IF ~preferences.contentTypes.array
        THEN <<E("contentTypes", "must be an array")>>
   ELSE IF Len(preferences.contentTypes.list) = 0
        THEN <<E("contentTypes", "must contain at least 1 item")>>
   ELSE IF Len(preferences.contentTypes.list) > MaxContentTypes
        THEN <<E("contentTypes", "must contain at most 6 items")>>
   ELSE IF SelectSeq(preferences.contentTypes.list,
                     LAMBDA t : t \notin Range(VALID_CONTENT_TYPES)) # <<>>
        THEN <<E("contentTypes", "Invalid, valid options are listed")>>
   ELSE <<>>)

\* request bodies of POST / PUT /api/user/preferences that pass the validation
ValidBodies ==
  [interestedAssets : {Arr(<<"SOL">>), Arr(<<"BTC", "DOGE">>)},
   investorType : {"Day Trader"}, contentTypes : {Arr(<<"Charts">>)}]

ElevenAssets ==
  <<"BTC", "ETH", "SOL", "DOGE", "BTC", "ETH", "SOL", "DOGE", "BTC", "ETH", "SOL">>
SevenContentTypes ==
  <<"Market News", "Charts", "Social", "Fun", "Technical Analysis", "Memes", "Charts">>

\* one field wrong in each way the validator tells apart, and two at once
InvalidBodies ==
  {[interestedAssets |-> Missing, investorType |-> "Day Trader",
    contentTypes |-> Arr(<<"Charts">>)],
   [interestedAssets |-> NotArray("BTC"), investorType |-> "Day Trader",
    contentTypes |-> Arr(<<"Charts">>)],
   [interestedAssets |-> Arr(ElevenAssets), investorType |-> "Day Trader",
    contentTypes |-> Arr(<<"Charts">>)],
   [interestedAssets |-> Arr(<<>>), investorType |-> "",
    contentTypes |-> Arr(<<"Charts">>)],
   [interestedAssets |-> Arr(<<"SOL">>), investorType |-> "Whale",
    contentTypes |-> Missing],
   [interestedAssets |-> Arr(<<"SOL">>), investorType |-> "Day Trader",
    contentTypes |-> Arr(<<>>)],
   [interestedAssets |-> Arr(<<"SOL">>), investorType |-> "Day Trader",
    contentTypes |-> Arr(SevenContentTypes)],
   [interestedAssets |-> Arr(<<"SOL">>), investorType |-> "Day Trader",
    contentTypes |-> Arr(<<"Charts", "Bogus">>)]}

PrefBodies == ValidBodies \cup InvalidBodies

\* the preferences a user of the dashboard saves
OnboardingBody ==
  [interestedAssets |-> Arr(<<"SOL">>), investorType |-> "Day Trader",
   contentTypes |-> Arr(<<"Charts">>)]

(***************************************************************************)
(* JWT middleware                                                          *)
(***************************************************************************)
\* the Authorization header of a request
NoCredential == [kind |-> "none", userId |-> "admin"]
Credentials ==
  [kind : {"none", "badformat", "expired", "forged"}, userId : {"admin"}]
    \cup [kind : {"valid"}, userId : tokens]

\* the headers that carry a token issued by signup or login
LoggedIn == [kind : {"valid"}, userId : tokens]

\* the 401 message of verifyTokenMiddleware, "" when it calls next()
verifyTokenMiddleware(cred) ==
  IF cred.kind = "none" THEN "No token provided"
  ELSE IF cred.kind = "badformat" THEN "Invalid token format"
  ELSE IF cred.kind = "expired" THEN "Token expired"
  ELSE IF cred.kind = "forged" THEN "Invalid token"
  ELSE ""

(***************************************************************************)
(* GET /api/dashboard                                                      *)
(***************************************************************************)
DefaultAssets == <<"BTC", "ETH">>
DefaultContentTypes == <<"Market News">>
DefaultInvestorType == "HODLer"

NoResult == [kind |-> "none"]
NoBody == [kind |-> "none"]
NoPreferences == [kind |-> "none"]

IdleRequest ==
  [pc |-> "idle", cred |-> NoCredential, existed |-> FALSE, stored |-> NoPreferences,
   user |-> Undefined,
   args |-> [interestedAssets |-> Missing, investorType |-> "", contentTypes |-> Missing],
   inflight |-> "none", lost |-> FALSE,
   invoked |-> {}, outbound |-> [price |-> 0, news |-> 0, insight |-> 0],
   outcome |-> [price |-> "none", news |-> "none", insight |-> "none", rnd |-> 0],
   doneAt |-> [price |-> 0, news |-> 0, insight |-> 0],
   price |-> NoResult, news |-> NoResult, insight |-> NoResult,
   tick |-> 0, status |-> 0, body |-> NoBody]

\* line 15: const user = userStore.findById(userId), the call is not awaited
DashUser(userId) == findById(userId)

DashPreferences_raw(userId) ==
  IF users[userId].kind = "object" THEN Obj(users[userId].preferences) ELSE Null

\* line 21: const preferences = userStore.getPreferences(userId), not awaited
DashPreferences(userId) == getPreferences(userId)

\* preferences?.interestedAssets || [...], preferences?.contentTypes || [...],
\* preferences?.investorType || 'HODLer': only a plain object has the fields,
\* and an array (even an empty one) is truthy
ResolveArgs(preferences) ==
  [interestedAssets |->
     IF preferences.kind = "object" THEN Arr(preferences.value.interestedAssets)
     ELSE Arr(DefaultAssets),
   contentTypes |->
     IF preferences.kind = "object" THEN Arr(preferences.value.contentTypes)
     ELSE Arr(DefaultContentTypes),
   investorType |->
     IF preferences.kind = "object" /\ preferences.value.investorType # ""
     THEN preferences.value.investorType ELSE DefaultInvestorType]

\* the `user` object of the response as res.json writes it: a field read off
\* a value that is not the document is undefined, and JSON drops it
UserSummary(user) ==
  IF user.kind = "object"
  THEN [id |-> user._id, email |-> user.email, firstName |-> user.firstName,
        lastName |-> user.lastName, score |-> user.score, account |-> user.account]
  ELSE [dropped |-> {"id", "email", "firstName", "lastName", "score", "account"}]

BuildDashboard_partial(user, coinPricesData, newsData, aiInsightData, now) ==
  IF "error" \in DOMAIN coinPricesData
  THEN [user |-> UserSummary(user),
        marketNews |-> [news |-> newsData.news, count |-> newsData.count,
                        updatedAt |-> now],
        aiInsight |-> [insight |-> aiInsightData.insight,
                       generatedAt |-> aiInsightData.generatedAt,
                       model |-> aiInsightData.model],
        meme |-> [url |-> "", title |-> ""]]
  ELSE [user |-> UserSummary(user),
        coinPrices |-> [coins |-> coinPricesData.coins, updatedAt |-> now],
        marketNews |-> [news |-> newsData.news, count |-> newsData.count,
                        updatedAt |-> now],
        aiInsight |-> [insight |-> aiInsightData.insight,
                       generatedAt |-> aiInsightData.generatedAt,
                       model |-> aiInsightData.model],
        meme |-> [url |-> "", title |-> ""]]

BuildDashboard_coupled(user, coinPricesData, newsData, aiInsightData, now) ==
  [user |-> UserSummary(user),
   coinPrices |-> [coins |-> coinPricesData.coins, updatedAt |-> now],
   marketNews |-> IF "error" \in DOMAIN coinPricesData
                  THEN [news |-> <<>>, count |-> 0, updatedAt |-> now]
                  ELSE [news |-> newsData.news, count |-> newsData.count,
                        updatedAt |-> now],
   aiInsight |-> [insight |-> aiInsightData.insight,
                  generatedAt |-> aiInsightData.generatedAt,
                  model |-> aiInsightData.model],
   meme |-> [url |-> "", title |-> ""]]

\* lines 58-83: const dashboardData = {...}
BuildDashboard(user, coinPricesData, newsData, aiInsightData, now) ==
  [user |-> UserSummary(user),
   coinPrices |-> [coins |-> coinPricesData.coins, updatedAt |-> now],
   marketNews |-> [news |-> newsData.news, count |-> newsData.count,
                   updatedAt |-> now],
   aiInsight |-> [insight |-> aiInsightData.insight,
                  generatedAt |-> aiInsightData.generatedAt,
                  model |-> aiInsightData.model],
   meme |-> [url |-> "", title |-> ""]]

\* res.status(status).json(body)
Respond(r, status, body) ==
  [r EXCEPT !.pc = "done", !.status = status, !.body = body, !.inflight = "none"]

\* catch (error) { next(error) } and the error middleware: err.status || 500
NextError(r, completion) == Respond(r, 500, [message |-> completion.value.message])

\* an outbound call of adapter `a` leaves; the handler waits on its await
CallOut(r, a) ==
  [r EXCEPT !.pc = IF a = "price" THEN "awaitPrice"
                   ELSE IF a = "news" THEN "awaitNews" ELSE "awaitInsight",
            !.inflight = a, !.lost = FALSE,
            !.invoked = @ \cup {a}, !.outbound[a] = @ + 1]

\* lines 50-85: after `await aiService.generateInsight(...)`
AfterInsight(r, completion, now) ==
  IF completion.state = "rejected" THEN NextError(r, completion)
  ELSE Respond([r EXCEPT !.insight = completion.value, !.doneAt.insight = now], 200,
               BuildDashboard(r.user, r.price, r.news, completion.value, now))

\* lines 43-48: generateInsight is called
EnterInsight(r, rnd, now) ==
  IF InsightCallsOut(r.args) THEN CallOut(r, "insight")
  ELSE AfterInsight([r EXCEPT !.invoked = @ \cup {"insight"}, !.outcome.rnd = rnd],
                    generateInsight(r.args, "none", rnd, now), now)

\* lines 36-41: after `await cryptopanicService.getCryptoNews(...)`
AfterNews(r, completion, rnd, now) ==
  IF completion.state = "rejected" THEN NextError(r, completion)
  ELSE EnterInsight([r EXCEPT !.news = completion.value, !.doneAt.news = now], rnd, now)

\* lines 29-34: getCryptoNews is called
EnterNews(r, rnd, now) ==
  IF NewsCallsOut(apiKey) THEN CallOut(r, "news")
  ELSE AfterNews([r EXCEPT !.invoked = @ \cup {"news"}, !.outcome.news = "nokey"],
                 getCryptoNews(r.args.interestedAssets, r.args.contentTypes,
                               apiKey, "nokey"),
                 rnd, now)

AfterPrice_early(r, completion, rnd, now) ==
  IF completion.state = "rejected" THEN NextError(r, completion)
  ELSE IF "error" \in DOMAIN completion.value
  THEN Respond([r EXCEPT !.price = completion.value, !.doneAt.price = now], 200,
               [user |-> UserSummary(r.user),
                coinPrices |-> [coins |-> <<>>, updatedAt |-> now],
                marketNews |-> [news |-> <<>>, count |-> 0, updatedAt |-> now],
                aiInsight |-> [insight |-> <<>>, generatedAt |-> now, model |-> "none"],
                meme |-> [url |-> "", title |-> ""]])
  ELSE EnterNews([r EXCEPT !.price = completion.value, !.doneAt.price = now], rnd, now)

\* a handler that calls the price provider once more after a failed attempt
AfterPrice_retry(r, completion, rnd, now) ==
  IF completion.state = "rejected" THEN NextError(r, completion)
  ELSE IF "error" \in DOMAIN completion.value /\ r.outbound.price < 2
  THEN CallOut(r, "price")
  ELSE EnterNews([r EXCEPT !.price = completion.value, !.doneAt.price = now], rnd, now)

\* after `await coingeckoService.getCoinPrices(interestedAssets)`
AfterPrice(r, completion, rnd, now) ==
  IF completion.state = "rejected" THEN NextError(r, completion)
  ELSE EnterNews([r EXCEPT !.price = completion.value, !.doneAt.price = now], rnd, now)

\* lines 24-27: getCoinPrices is called
EnterPrice(r, rnd, now) ==
  IF PriceCallsOut(r.args.interestedAssets) THEN CallOut(r, "price")
  ELSE AfterPrice([r EXCEPT !.invoked = @ \cup {"price"}],
                  getCoinPrices(r.args.interestedAssets, "none"), rnd, now)

\* lines 11-22: the handler up to its first await
StartHandler(r, rnd, now) ==
  LET userId == r.cred.userId
      user == DashUser(userId)
  IN IF Falsy(user) THEN Respond(r, 404, [message |-> "User not found"])
     ELSE EnterPrice([r EXCEPT !.user = user,
                               !.args = ResolveArgs(DashPreferences(userId))],
                     rnd, now)

\* the request enters the router: verifyTokenMiddleware, then the handler
Dispatch(cred, rnd) ==
  LET r == [IdleRequest EXCEPT
              !.cred = cred, !.tick = 1,
              !.existed = (cred.kind = "valid" /\ users[cred.userId].kind = "object"),
              !.stored = IF cred.kind = "valid" /\ users[cred.userId].kind = "object"
                         THEN users[cred.userId].preferences ELSE NoPreferences]
  IN IF verifyTokenMiddleware(cred) # ""
     THEN Respond(r, 401, [message |-> verifyTokenMiddleware(cred)])
     ELSE StartHandler(r, rnd, 1)

(***************************************************************************)
(* Requests in flight: one step per turn of the event loop                 *)
(***************************************************************************)
Awaiting == {"awaitPrice", "awaitNews", "awaitInsight"}

\* GET /api/dashboard arrives; the handler runs up to its first pending call
DashRequest(s) ==
  /\ req[s].pc = "idle"
  /\ \E cred \in Credentials, rnd \in RandChoices :
       req' = [req EXCEPT ![s] = Dispatch(cred, rnd)]
  /\ UNCHANGED <<users, everIds, tokens, apiKey, probe, prefReply, feedbackStore, Feedback, fbReply, signups>>

\* the provider's answer (or its failure) settles the pending call of `r`
Settled(r, a, outcome) ==
  [r EXCEPT !.tick = @ + 1, !.inflight = "none", !.outcome[a] = outcome]

\* CoinGecko answers or the connection fails
PriceReply(s) ==
  /\ req[s].pc = "awaitPrice" /\ ~req[s].lost
  /\ \E outcome \in PriceOutcomes, rnd \in RandChoices :
       LET r == Settled(req[s], "price", outcome)
       IN req' = [req EXCEPT ![s] =
                    AfterPrice(r, getCoinPrices(r.args.interestedAssets, outcome),
                               rnd, r.tick)]
  /\ UNCHANGED <<users, everIds, tokens, apiKey, probe, prefReply, feedbackStore, Feedback, fbReply, signups>>

\* CryptoPanic answers or the connection fails
NewsReply(s) ==
  /\ req[s].pc = "awaitNews" /\ ~req[s].lost
  /\ \E outcome \in NewsOutcomes, rnd \in RandChoices :
       LET r == Settled(req[s], "news", outcome)
       IN req' = [req EXCEPT ![s] =
                    AfterNews(r, getCryptoNews(r.args.interestedAssets,
                                               r.args.contentTypes, TRUE, outcome),
                              rnd, r.tick)]
  /\ UNCHANGED <<users, everIds, tokens, apiKey, probe, prefReply, feedbackStore, Feedback, fbReply, signups>>

\* the calls axios was given a `timeout` for
TimedCalls == {"news"}

\* axios gives up on a pending call after its timeout
CallTimeout(s) ==
  /\ req[s].pc \in Awaiting /\ req[s].inflight \in TimedCalls
  /\ \E rnd \in RandChoices :
       LET r == Settled(req[s], "news", "timeout")
       IN req' = [req EXCEPT ![s] =
                    AfterNews(r, getCryptoNews(r.args.interestedAssets,
                                               r.args.contentTypes, TRUE, "timeout"),
                              rnd, r.tick)]
  /\ UNCHANGED <<users, everIds, tokens, apiKey, probe, prefReply, feedbackStore, Feedback, fbReply, signups>>

\* OpenRouter answers or the connection fails
InsightReply(s) ==
  /\ req[s].pc = "awaitInsight" /\ ~req[s].lost
  /\ \E outcome \in InsightOutcomes, rnd \in RandChoices :
       LET completion == generateInsight(req[s].args, outcome, rnd, req[s].tick + 1)
           fellBack == completion.state = "resolved" /\ "error" \in DOMAIN completion.value
           r == [Settled(req[s], "insight", outcome)
                   EXCEPT !.outcome.rnd = IF fellBack THEN rnd ELSE 0]
       IN /\ (fellBack \/ rnd = 0)
          /\ req' = [req EXCEPT ![s] = AfterInsight(r, completion, r.tick)]
  /\ UNCHANGED <<users, everIds, tokens, apiKey, probe, prefReply, feedbackStore, Feedback, fbReply, signups>>

\* the provider accepts the pending call and never answers it
ProviderNeverAnswers(s) ==
  /\ req[s].pc \in Awaiting /\ ~req[s].lost
  /\ req' = [req EXCEPT ![s].lost = TRUE]
  /\ UNCHANGED <<users, everIds, tokens, apiKey, probe, prefReply, feedbackStore, Feedback, fbReply, signups>>

\* the response has been written; the connection is free for the next request
Finish(s) ==
  /\ req[s].pc = "done"
  /\ req' = [req EXCEPT ![s] = IdleRequest]
  /\ UNCHANGED <<users, everIds, tokens, apiKey, probe, prefReply, feedbackStore, Feedback, fbReply, signups>>

(***************************************************************************)
(* Account and preference routes                                           *)
(***************************************************************************)
Passwords == {"admin123", "pw1"}

\* POST /api/auth/signup
Signup(email, password) ==
  /\ UserIds \ everIds # {}
  /\ findByEmail(email) = Null
  /\ LET id == CHOOSE u \in UserIds : u \notin everIds
     IN /\ users' = [users EXCEPT ![id] =
                       NewUser(id, [email |-> email, password |-> password,
                                    firstName |-> "Ann", lastName |-> "Lee"])]
        /\ everIds' = everIds \cup {id}
        /\ tokens' = tokens \cup {id}
  /\ UNCHANGED <<apiKey, req, probe, prefReply, feedbackStore, Feedback, fbReply, signups>>

\* POST /api/auth/login
Login(email, password) ==
  /\ findByEmail(email) # Null
  /\ findByEmail(email).password = bcryptHash(password)
  /\ tokens' = tokens \cup {findByEmail(email)._id}
  /\ UNCHANGED <<users, everIds, apiKey, req, probe, prefReply, feedbackStore, Feedback, fbReply, signups>>

\* a DELETE /api/user/:id that also removes the feedback of the deleted user
DeleteUser_cascade(cred, id) ==
  /\ verifyTokenMiddleware(cred) = ""
  /\ cred.userId # id
  /\ users[id].kind = "object"
  /\ users' = [users EXCEPT ![id] = Null]
  /\ Feedback' = SelectSeq(Feedback, LAMBDA f : f.userId # id)
  /\ feedbackStore' = SelectSeq(feedbackStore, LAMBDA f : f.userId # id)
  /\ UNCHANGED <<everIds, tokens, apiKey, req, probe, prefReply, fbReply, signups>>

\* DELETE /api/user/:id
DeleteUser(cred, id) ==
  /\ verifyTokenMiddleware(cred) = ""
  /\ cred.userId # id
  /\ users[id].kind = "object"
  /\ users' = [users EXCEPT ![id] = Null]
  /\ UNCHANGED <<everIds, tokens, apiKey, req, probe, prefReply, feedbackStore, Feedback, fbReply, signups>>

\* the value an awaited promise settles to
Await(promise) == promise.value

\* no /api/user/preferences request has been answered yet
PrefIdle ==
  [route |-> "none", cred |-> NoCredential, body |-> NoBody, stored |-> NoPreferences,
   status |-> 0, response |-> NoBody]

\* what the request found stored for its user when it arrived
StoredFor(cred) ==
  IF cred.kind = "valid" /\ users[cred.userId].kind = "object"
  THEN users[cred.userId].preferences ELSE NoPreferences

\* res.status(status).json(response) of a preferences route
PrefRespond(route, cred, body, status, response) ==
  [route |-> route, cred |-> cred, body |-> body, stored |-> StoredFor(cred),
   status |-> status, response |-> response]

\* the handler shared by POST and PUT /api/user/preferences
SavePreferences(route, cred, body) ==
  /\ UNCHANGED <<everIds, tokens, apiKey, req, probe, feedbackStore, Feedback, fbReply, signups>>
  /\ IF verifyTokenMiddleware(cred) # ""
     THEN /\ prefReply' = PrefRespond(route, cred, body, 401,
                                      [message |-> verifyTokenMiddleware(cred)])
          /\ users' = users
     ELSE IF Falsy(Await(findById(cred.userId)))
     THEN /\ prefReply' = PrefRespond(route, cred, body, 404,
                                      [message |-> "User not found"])
          /\ users' = users
     ELSE IF validatePreferences(body) # <<>>
     THEN /\ prefReply' = PrefRespond(route, cred, body, 400,
                             [message |-> <<"Validation error">>,
                              errors |-> validatePreferences(body)])
          /\ users' = users
     ELSE /\ users' = updatePreferences(cred.userId, body)
          /\ prefReply' = PrefRespond(route, cred, body, 200,
                             [success |-> TRUE,
                              message |-> IF route = "POST /preferences"
                                          THEN "Preferences saved successfully"
                                          ELSE "Preferences updated successfully",
                              preferences |-> users'[cred.userId].preferences])

\* POST /api/user/preferences
PostPreferences(cred, body) == SavePreferences("POST /preferences", cred, body)

\* PUT /api/user/preferences
PutPreferences(cred, body) == SavePreferences("PUT /preferences", cred, body)

\* GET /api/user/preferences
GetPreferences(cred) ==
  /\ UNCHANGED <<users, everIds, tokens, apiKey, req, probe, feedbackStore, Feedback, fbReply, signups>>
  /\ prefReply' =
       IF verifyTokenMiddleware(cred) # ""
       THEN PrefRespond("GET /preferences", cred, NoBody, 401,
                        [message |-> verifyTokenMiddleware(cred)])
       ELSE IF Falsy(Await(findById(cred.userId)))
       THEN PrefRespond("GET /preferences", cred, NoBody, 404,
                        [message |-> "User not found"])
       ELSE IF Falsy(Await(getPreferences(cred.userId)))
       THEN PrefRespond("GET /preferences", cred, NoBody, 200,
                        [preferences |-> Null, completedOnboarding |-> FALSE])
       ELSE PrefRespond("GET /preferences", cred, NoBody, 200,
                        [preferences |-> Await(getPreferences(cred.userId)).value])

(***************************************************************************)
(* The adapters on their own, over every argument list of the bounds       *)
(***************************************************************************)
NoCompletion == [state |-> "none"]

IdleProbe ==
  [adapter |-> "none",
   args |-> [interestedAssets |-> Missing, investorType |-> "", contentTypes |-> Missing],
   key |-> FALSE, outcome |-> "none", rnd |-> 0, sent |-> NoRequest,
   result |-> NoCompletion]

ProbeArgs ==
  [interestedAssets : {Missing} \cup {Arr(l) : l \in SeqsUpTo(Symbols, MaxAssets)},
   investorType : {"undefined"} \cup Range(VALID_INVESTOR_TYPES),
   contentTypes : {Missing, Arr(<<"Market News">>), Arr(<<"Charts", "Fun">>)}]

ProbePrice ==
  /\ probe.adapter = "none"
  /\ \E outcome \in PriceOutcomes :
       probe' = [probe EXCEPT !.adapter = "price", !.outcome = outcome,
                   !.sent = PriceRequest(probe.args.interestedAssets),
                   !.result = getCoinPrices(probe.args.interestedAssets, outcome)]
  /\ UNCHANGED <<users, everIds, tokens, apiKey, req, prefReply, feedbackStore, Feedback, fbReply, signups>>

ProbeNews ==
  /\ probe.adapter = "none"
  /\ \E outcome \in NewsOutcomes \cup {"timeout", "many"} :
       probe' = [probe EXCEPT !.adapter = "news", !.outcome = outcome,
                   !.result = getCryptoNews(probe.args.interestedAssets,
                                            probe.args.contentTypes, probe.key, outcome)]
  /\ UNCHANGED <<users, everIds, tokens, apiKey, req, prefReply, feedbackStore, Feedback, fbReply, signups>>

ProbeInsight ==
  /\ probe.adapter = "none"
  /\ \E outcome \in InsightOutcomes, rnd \in RandChoices :
       probe' = [probe EXCEPT !.adapter = "insight", !.outcome = outcome, !.rnd = rnd,
                   !.result = generateInsight(probe.args, outcome, rnd, 0)]
  /\ UNCHANGED <<users, everIds, tokens, apiKey, req, prefReply, feedbackStore, Feedback, fbReply, signups>>

(***************************************************************************)
(* Feedback: the Feedback collection, the in-memory feedbackStore and the  *)
(* handlers of /api/feedback and /api/user/feedback                        *)
(***************************************************************************)
\* enum of feedbackSchema.section, and the list the handlers test against
FeedbackSections == <<"coinPrices", "marketNews", "aiInsight", "meme">>
\* comment: { maxlength: 500 } and `comment.length > 500`
MaxCommentLength == 500
\* records the stores may hold together
MaxFeedback == 2

\* a comment as the string of `length` characters it is; none in the body
Comment(length) == [kind |-> "string", length |-> length]
NoComment == [kind |-> "undefined"]

\* comment || null
CommentOrNull(comment) ==
  IF comment.kind = "undefined" \/ comment.length = 0 THEN Null ELSE comment

\* contentId || null ("undefined": the body has no contentId)
ContentIdOrNull(contentId) ==
  IF contentId \in {"undefined", ""} THEN "null" ELSE contentId

\* bodies of POST /api/feedback: valid ones, a section outside the enum, a
\* comment of 501 characters, a type outside the enum
FeedbackBodies ==
  {[type |-> "thumbs_up", section |-> "coinPrices", contentId |-> "n1",
    comment |-> NoComment],
   [type |-> "thumbs_down", section |-> "marketNews", contentId |-> "",
    comment |-> Comment(500)],
   [type |-> "thumbs_up", section |-> "bogusSection", contentId |-> "n1",
    comment |-> NoComment],
   [type |-> "thumbs_up", section |-> "coinPrices", contentId |-> "n1",
    comment |-> Comment(501)],
   [type |-> "meh", section |-> "coinPrices", contentId |-> "n1",
    comment |-> NoComment]}

\* the same submissions in the format of POST /api/user/feedback
UserFeedbackBodies ==
  {[sectionType |-> "coinPrices", vote |-> "up",
    metadata |-> [contentId |-> "n1", comment |-> NoComment]],
   [sectionType |-> "marketNews", vote |-> "down",
    metadata |-> [contentId |-> "", comment |-> Comment(500)]],
   [sectionType |-> "bogusSection", vote |-> "up",
    metadata |-> [contentId |-> "n1", comment |-> NoComment]],
   [sectionType |-> "coinPrices", vote |-> "up",
    metadata |-> [contentId |-> "n1", comment |-> Comment(501)]],
   [sectionType |-> "coinPrices", vote |-> "sideways",
    metadata |-> [contentId |-> "n1", comment |-> NoComment]]}

\* no feedback request has been answered yet
FbIdle ==
  [route |-> "none", handler |-> "none", cred |-> NoCredential, body |-> NoBody,
   before |-> 0, status |-> 0, response |-> NoBody]

\* res.status(status).json(response); `before` is the number of stored
\* records when the request arrived
FbRespond(route, handler, cred, body, status, response) ==
  [route |-> route, handler |-> handler, cred |-> cred, body |-> body,
   before |-> Len(Feedback) + Len(feedbackStore),
   status |-> status, response |-> response]

\* new Feedback({...}) with timestamps: true; time is the count of records
NewFeedback(userId, type, section, contentId, comment) ==
  [_id |-> Len(Feedback) + 1, userId |-> userId, type |-> type, section |-> section,
   contentId |-> ContentIdOrNull(contentId), comment |-> CommentOrNull(comment),
   createdAt |-> Len(Feedback) + Len(feedbackStore) + 1]

\* feedback.save(): the schema validators; "" when the document is valid
FeedbackValidationError(doc) ==
  IF doc.type \notin {"thumbs_up", "thumbs_down"} THEN "Feedback validation failed: type"
  ELSE IF doc.section \notin Range(FeedbackSections)
  THEN "Feedback validation failed: section"
  ELSE IF doc.comment # Null /\ doc.comment.length > MaxCommentLength
  THEN "Feedback validation failed: comment"
  ELSE ""

\* 'Section must be one of: coinPrices, marketNews, aiInsight, meme'
SectionMessage == <<"Section must be one of: ">> \o Join(FeedbackSections, ", ")

\* POST /api/feedback with the Feedback model
PostFeedback(cred, body) ==
  /\ Len(Feedback) + Len(feedbackStore) < MaxFeedback
  /\ UNCHANGED <<users, everIds, tokens, apiKey, req, probe, prefReply, feedbackStore, signups>>
  /\ LET reply(status, response) ==
           FbRespond("POST /api/feedback", "Feedback model", cred, body, status, response)
         feedback == NewFeedback(cred.userId, body.type, body.section,
                                 body.contentId, body.comment)
     IN IF verifyTokenMiddleware(cred) # ""
        THEN /\ fbReply' = reply(401, [message |-> <<verifyTokenMiddleware(cred)>>])
             /\ Feedback' = Feedback
        ELSE IF body.type \notin {"thumbs_up", "thumbs_down"}
        THEN /\ fbReply' = reply(400, [message |->
                      <<"Feedback type must be \"thumbs_up\" or \"thumbs_down\"">>])
             /\ Feedback' = Feedback
        ELSE IF body.section = "" \/ body.section \notin Range(FeedbackSections)
        THEN /\ fbReply' = reply(400, [message |-> SectionMessage])
             /\ Feedback' = Feedback
        ELSE IF body.comment.kind = "string" /\ body.comment.length > 500
        THEN /\ fbReply' = reply(400, [message |->
                      <<"Comment must be 500 characters or less">>])
             /\ Feedback' = Feedback
        ELSE IF FeedbackValidationError(feedback) # ""
        THEN /\ fbReply' = reply(500, [message |-> <<FeedbackValidationError(feedback)>>])
             /\ Feedback' = Feedback
        ELSE /\ Feedback' = Append(Feedback, feedback)
             /\ fbReply' = reply(200, [message |-> <<"Feedback saved successfully">>,
                                       feedback |-> feedback])

\* POST /api/feedback with the in-memory feedbackStore
PostFeedbackInMemory(cred, body) ==
  /\ Len(Feedback) + Len(feedbackStore) < MaxFeedback
  /\ UNCHANGED <<users, everIds, tokens, apiKey, req, probe, prefReply, Feedback, signups>>
  /\ LET reply(status, response) ==
           FbRespond("POST /api/feedback", "feedbackStore", cred, body, status, response)
         feedback == [id |-> Len(feedbackStore) + 1, userId |-> cred.userId,
                      type |-> body.type,
                      contentId |-> ContentIdOrNull(body.contentId),
                      comment |-> CommentOrNull(body.comment),
                      createdAt |-> Len(Feedback) + Len(feedbackStore) + 1]
     IN IF verifyTokenMiddleware(cred) # ""
        THEN /\ fbReply' = reply(401, [message |-> <<verifyTokenMiddleware(cred)>>])
             /\ feedbackStore' = feedbackStore
        ELSE IF body.type \notin {"thumbs_up", "thumbs_down"}
        THEN /\ fbReply' = reply(400, [message |->
                      <<"Feedback type must be \"thumbs_up\" or \"thumbs_down\"">>])
             /\ feedbackStore' = feedbackStore
        ELSE /\ feedbackStore' = Append(feedbackStore, feedback)
             /\ fbReply' = reply(200, [message |-> <<"Feedback saved successfully">>,
                                       feedback |-> feedback])

\* POST /api/user/feedback
PostUserFeedback(cred, body) ==
  /\ Len(Feedback) + Len(feedbackStore) < MaxFeedback
  /\ UNCHANGED <<users, everIds, tokens, apiKey, req, probe, prefReply, feedbackStore, signups>>
  /\ LET reply(status, response) ==
           FbRespond("POST /api/user/feedback", "Feedback model", cred, body,
                     status, response)
         feedback == NewFeedback(cred.userId,
                                 IF body.vote = "up" THEN "thumbs_up" ELSE "thumbs_down",
                                 body.sectionType, body.metadata.contentId,
                                 body.metadata.comment)
     IN IF verifyTokenMiddleware(cred) # ""
        THEN /\ fbReply' = reply(401, [message |-> <<verifyTokenMiddleware(cred)>>])
             /\ Feedback' = Feedback
        ELSE IF body.sectionType = "" \/ body.sectionType \notin Range(FeedbackSections)
        THEN /\ fbReply' = reply(400, [message |->
                      <<"Invalid sectionType. Must be one of: ">>
                        \o Join(FeedbackSections, ", ")])
             /\ Feedback' = Feedback
        ELSE IF body.vote \notin {"up", "down"}
        THEN /\ fbReply' = reply(400, [message |->
                      <<"Invalid vote. Must be \"up\" or \"down\"">>])
             /\ Feedback' = Feedback
        ELSE IF FeedbackValidationError(feedback) # ""
        THEN /\ fbReply' = reply(500, [message |-> <<FeedbackValidationError(feedback)>>])
             /\ Feedback' = Feedback
        ELSE /\ Feedback' = Append(Feedback, feedback)
             /\ fbReply' = reply(200, [success |-> TRUE,
                                       message |-> <<"Feedback submitted successfully">>,
                                       feedback |-> feedback])

\* query strings of the feedback history: section filter and limit
FeedbackQueries ==
  {[section |-> "", limit |-> 50], [section |-> "coinPrices", limit |-> 50],
   [section |-> "bogusSection", limit |-> 50], [section |-> "", limit |-> 1]}

\* the Authorization headers of the feedback requests: none, or an issued token
FeedbackCredentials == {NoCredential} \cup LoggedIn

Reverse(s) == [i \in 1..Len(s) |-> s[Len(s) + 1 - i]]

\* a history query that leaves the userId out
FindFeedback_anyUser(userId, section) ==
  IF section # "" /\ section \in Range(FeedbackSections)
  THEN SelectSeq(Feedback, LAMBDA f : f.section = section)
  ELSE Feedback

\* Feedback.find({ userId }) or Feedback.find({ userId, section })
FindFeedback(userId, section) ==
  IF section # "" /\ section \in Range(FeedbackSections)
  THEN SelectSeq(Feedback, LAMBDA f : f.userId = userId /\ f.section = section)
  ELSE SelectSeq(Feedback, LAMBDA f : f.userId = userId)

\* .sort({ createdAt: -1 }).limit(parseInt(limit)); documents are kept in
\* the order they were created
NewestFirst(docs, limit) == Slice(Reverse(docs), limit)

\* GET /api/feedback with the Feedback model
GetFeedback(cred, query) ==
  /\ UNCHANGED <<users, everIds, tokens, apiKey, req, probe, prefReply, signups,
                 feedbackStore, Feedback>>
  /\ LET reply(status, response) ==
           FbRespond("GET /api/feedback", "Feedback model", cred, query, status, response)
         userFeedback == NewestFirst(FindFeedback(cred.userId, query.section), query.limit)
     IN fbReply' =
          IF verifyTokenMiddleware(cred) # ""
          THEN reply(401, [message |-> <<verifyTokenMiddleware(cred)>>])
          ELSE reply(200, [feedback |-> userFeedback, count |-> Len(userFeedback)])

\* GET /api/feedback with the in-memory feedbackStore
GetFeedbackInMemory(cred) ==
  /\ UNCHANGED <<users, everIds, tokens, apiKey, req, probe, prefReply, signups,
                 feedbackStore, Feedback>>
  /\ LET reply(status, response) ==
           FbRespond("GET /api/feedback", "feedbackStore", cred, NoBody, status, response)
         userFeedback == SelectSeq(feedbackStore, LAMBDA f : f.userId = cred.userId)
     IN fbReply' =
          IF verifyTokenMiddleware(cred) # ""
          THEN reply(401, [message |-> <<verifyTokenMiddleware(cred)>>])
          ELSE reply(200, [feedback |-> userFeedback, count |-> Len(userFeedback)])

\* the GET routes of the /api/user router in the order they are registered
UserGetRoutes == <<"/", "/preferences", "/:id", "/feedback">>

\* does a route pattern match the path of a request (one segment after /)
RouteMatches(pattern, path) ==
  IF pattern = "/:id" THEN path # "/" ELSE pattern = path

\* Express runs the first registered route that matches
RoutedTo(path) ==
  UserGetRoutes[CHOOSE i \in 1..Len(UserGetRoutes) :
                  /\ RouteMatches(UserGetRoutes[i], path)
                  /\ \A j \in 1..(i - 1) : ~RouteMatches(UserGetRoutes[j], path)]

\* userStore.findById(req.params.id): a parameter that is no ObjectId makes
\* User.findById throw a CastError, which findById turns into null
findByIdParam(id) == IF id \in UserIds THEN findById(id) ELSE Promise(Null)

\* userStore.sanitizeUser(user)
sanitizeUser(user) == [f \in DOMAIN user \ {"password"} |-> user[f]]

\* paths of GET /api/user/... requests besides / and /preferences
UserPaths == {"/feedback", "/admin", "/u1"}

\* the path parameter of /:id
IdOf(path) == IF path = "/admin" THEN "admin" ELSE IF path = "/u1" THEN "u1" ELSE "feedback"

\* the request line of GET /api/user/<path>
UserRoute(path) ==
  IF path = "/feedback" THEN "GET /api/user/feedback"
  ELSE IF path = "/admin" THEN "GET /api/user/admin" ELSE "GET /api/user/u1"

\* GET /api/user/<path>: the handler of /:id or the feedback history handler
GetUserPath(cred, path, query) ==
  /\ UNCHANGED <<users, everIds, tokens, apiKey, req, probe, prefReply, signups,
                 feedbackStore, Feedback>>
  /\ LET reply(status, response) ==
           FbRespond(UserRoute(path), RoutedTo(path), cred, query,
                     status, response)
         user == Await(findByIdParam(IdOf(path)))
         userFeedback == NewestFirst(FindFeedback(cred.userId, query.section), query.limit)
     IN fbReply' =
          IF verifyTokenMiddleware(cred) # ""
          THEN reply(401, [message |-> <<verifyTokenMiddleware(cred)>>])
          ELSE IF RoutedTo(path) = "/:id"
          THEN IF Falsy(user) THEN reply(404, [message |-> <<"User not found">>])
               ELSE reply(200, sanitizeUser(user))
          ELSE reply(200, [feedback |-> userFeedback,
                           count |-> Len(FindFeedback(cred.userId, query.section))])

(***************************************************************************)
(* POST /signup step by step: each await is a point where another request  *)
(* may run                                                                 *)
(***************************************************************************)
SignupRequests == {"r1", "r2"}

\* the addresses of the signup bodies; all other fields are present and valid
SignupEmails == {"ann@x.io", "Ann@x.io"}

\* String.prototype.toLowerCase on those addresses
toLowerCase(email) == IF email = "Ann@x.io" THEN "ann@x.io" ELSE email

\* the two user stores of src/: the Mongoose userStore and the in-memory userService
UserStores == {"mongo", "memory"}

SignupIdle ==
  [pc |-> "idle", email |-> "", password |-> <<>>, status |-> 0, message |-> "",
   registered |-> FALSE, created |-> ""]

NoSignups == [store |-> "mongo", inflight |-> [r \in SignupRequests |-> SignupIdle]]

\* is a user with exactly this email stored
Registered(email) ==
  \E u \in UserIds : users[u].kind = "object" /\ users[u].email = email

\* res.status(status).json(...): the request is answered
SignupAnswered(r, status, message, registered, created) ==
  [signups EXCEPT !.inflight[r] =
     [@ EXCEPT !.pc = "done", !.status = status, !.message = message,
               !.registered = registered, !.created = created]]

\* an index on email without the unique constraint: save never fails
DuplicateKey_noIndex(email) == FALSE

\* the unique index of userSchema.email: save() throws E11000
DuplicateKey(email) == Registered(email)

\* userStore signup, up to `await userStore.findByEmail(email)`
SignupFindByEmail(r, email) ==
  /\ signups.store = "mongo"
  /\ signups.inflight[r].pc \in {"idle", "done"}
  /\ signups' =
       IF findByEmail(toLowerCase(email)) # Null
       THEN SignupAnswered(r, 400, "User with this email already exists", TRUE, "")
       ELSE [signups EXCEPT !.inflight[r] =
               [SignupIdle EXCEPT !.pc = "create", !.email = email, !.password = <<"pw1">>]]
  /\ UNCHANGED <<users, everIds, tokens, apiKey, req, probe, prefReply,
                 feedbackStore, Feedback, fbReply>>

\* userStore signup, `await userStore.create(...)` and the answer
SignupSave(r) ==
  LET email == toLowerCase(signups.inflight[r].email)
  IN /\ signups.store = "mongo"
     /\ signups.inflight[r].pc = "create"
     /\ IF DuplicateKey(email)
        THEN /\ signups' = SignupAnswered(r, 400, "User with this email already exists",
                                          TRUE, "")
             /\ UNCHANGED <<users, everIds, tokens>>
        ELSE /\ UserIds \ everIds # {}
             /\ LET id == CHOOSE u \in UserIds : u \notin everIds
                IN /\ users' = [users EXCEPT ![id] =
                                  NewUser(id, [email |-> email, password |-> "pw1",
                                               firstName |-> "Ann", lastName |-> "Lee"])]
                   /\ everIds' = everIds \cup {id}
                   /\ tokens' = tokens \cup {id}
                   /\ signups' = SignupAnswered(r, 200, "", Registered(email), id)
     /\ UNCHANGED <<apiKey, req, probe, prefReply, feedbackStore, Feedback, fbReply>>

\* userService signup, up to `await userService.getByEmail(email)`
SignupGetByEmail(r, email) ==
  /\ signups.store = "memory"
  /\ signups.inflight[r].pc \in {"idle", "done"}
  /\ signups' =
       IF Registered(email)
       THEN SignupAnswered(r, 400, "User with this email already exists", TRUE, "")
       ELSE [signups EXCEPT !.inflight[r] =
               [SignupIdle EXCEPT !.pc = "hash", !.email = email, !.password = <<"pw1">>]]
  /\ UNCHANGED <<users, everIds, tokens, apiKey, req, probe, prefReply,
                 feedbackStore, Feedback, fbReply>>

\* userService signup, `await bcrypt.hash(password, 10)`
SignupHash(r) ==
  /\ signups.store = "memory"
  /\ signups.inflight[r].pc = "hash"
  /\ signups' = [signups EXCEPT !.inflight[r].pc = "create",
                                !.inflight[r].password = bcryptHash(@[1])]
  /\ UNCHANGED <<users, everIds, tokens, apiKey, req, probe, prefReply,
                 feedbackStore, Feedback, fbReply>>

\* userService signup, `await userService.create(...)`: users.push(user), and the
\* answer; the ids of UserIds stand for the ones generateId hands out
SignupPush(r) ==
  LET email == signups.inflight[r].email
  IN /\ signups.store = "memory"
     /\ signups.inflight[r].pc = "create"
     /\ UserIds \ everIds # {}
     /\ LET id == CHOOSE u \in UserIds : u \notin everIds
        IN /\ users' = [users EXCEPT ![id] =
                          [NewUser(id, [email |-> email, password |-> "pw1",
                                        firstName |-> "Ann", lastName |-> "Lee"])
                           EXCEPT !.password = signups.inflight[r].password]]
           /\ everIds' = everIds \cup {id}
           /\ tokens' = tokens \cup {id}
           /\ signups' = SignupAnswered(r, 200, "", Registered(email), id)
     /\ UNCHANGED <<apiKey, req, probe, prefReply, feedbackStore, Feedback, fbReply>>

(***************************************************************************)
(* Specifications                                                          *)
(***************************************************************************)
\* the server has started: the default admin exists, nobody has logged in
Init ==
  /\ users = [u \in UserIds |-> IF u = "admin" THEN AdminUser ELSE Null]
  /\ everIds = {"admin"}
  /\ tokens = {}
  /\ apiKey \in BOOLEAN
  /\ req = [s \in Slots |-> IdleRequest]
  /\ probe = IdleProbe
  /\ prefReply = PrefIdle
  /\ feedbackStore = <<>>
  /\ Feedback = <<>>
  /\ fbReply = FbIdle
  /\ signups = NoSignups

Next ==
  \/ DashRequest("a") \/ PriceReply("a") \/ NewsReply("a") \/ CallTimeout("a")
  \/ InsightReply("a") \/ ProviderNeverAnswers("a") \/ Finish("a")
  \/ \E email \in Emails : Signup(email, "pw1")
  \/ \E email \in Emails, password \in Passwords : Login(email, password)
  \/ \E cred \in Credentials, id \in UserIds : DeleteUser(cred, id)
  \/ \E cred \in LoggedIn : PostPreferences(cred, OnboardingBody)
  \/ \E cred \in LoggedIn : PutPreferences(cred, OnboardingBody)

Spec == Init /\ [][Next]_vars

\* the event loop runs every callback whose event has arrived
Fairness ==
  /\ WF_vars(PriceReply("a")) /\ WF_vars(NewsReply("a")) /\ WF_vars(CallTimeout("a"))
  /\ WF_vars(InsightReply("a")) /\ WF_vars(Finish("a"))

\* one connection of the logged-in admin, request after request
NextRequest ==
  \/ DashRequest("a") \/ PriceReply("a") \/ NewsReply("a") \/ CallTimeout("a")
  \/ InsightReply("a") \/ ProviderNeverAnswers("a") \/ Finish("a")


\* two dashboard requests of the logged-in admin side by side
InitPair ==
  /\ users = [u \in UserIds |-> IF u = "admin" THEN AdminUser ELSE Null]
  /\ everIds = {"admin"}
  /\ tokens = {"admin"}
  /\ apiKey \in BOOLEAN
  /\ req = [s \in Slots |-> IdleRequest]
  /\ probe = IdleProbe
  /\ prefReply = PrefIdle
  /\ feedbackStore = <<>>
  /\ Feedback = <<>>
  /\ fbReply = FbIdle
  /\ signups = NoSignups

NextPair ==
  \E s \in Slots :
    \/ DashRequest(s) \/ PriceReply(s) \/ NewsReply(s) \/ CallTimeout(s)
    \/ InsightReply(s) \/ ProviderNeverAnswers(s)

SpecPair == InitPair /\ [][NextPair]_vars

FairSpec == InitPair /\ [][NextRequest]_vars /\ Fairness

\* one adapter call on arguments of the caller's choosing
InitAdapter ==
  /\ users = [u \in UserIds |-> IF u = "admin" THEN AdminUser ELSE Null]
  /\ everIds = {"admin"}
  /\ tokens = {}
  /\ apiKey = FALSE
  /\ req = [s \in Slots |-> IdleRequest]
  /\ prefReply = PrefIdle
  /\ feedbackStore = <<>>
  /\ Feedback = <<>>
  /\ fbReply = FbIdle
  /\ signups = NoSignups
  /\ \E args \in ProbeArgs, key \in BOOLEAN :
       probe = [IdleProbe EXCEPT !.args = args, !.key = key]

NextAdapter == ProbePrice \/ ProbeNews \/ ProbeInsight

SpecAdapter == InitAdapter /\ [][NextAdapter]_vars

(***************************************************************************)
(* Properties of the dashboard route and the provider adapters             *)
(***************************************************************************)
SectionKeys == {"user", "coinPrices", "marketNews", "aiInsight", "meme"}
AdapterNames == {"price", "news", "insight"}

\* C1: every HTTP 200 response of GET /api/dashboard holds the key `user` and
\* the four section keys coinPrices, marketNews, aiInsight and meme, whatever
\* the price, news and insight providers did; the shape is never partial.
C1_ResponseShapeComplete ==
  \A s \in Slots :
    req[s].status = 200 => SectionKeys \subseteq DOMAIN req[s].body

\* a 200 response of a request on which all three providers failed
C1_AllProvidersFailed ==
  /\ req["a"].status = 200
  /\ req["a"].outcome.price = "error"
  /\ req["a"].outcome.news = "error"
  /\ req["a"].outcome.insight = "error"

\* C2: an authenticated request of an existing user that is answered is
\* answered 200 for every combination of provider outcomes; the catch branch
\* (next(error), status 500) is never reached because of a provider.
C2_NeverFailsOnProviderOutage ==
  \A s \in Slots :
    (req[s].pc = "done" /\ req[s].cred.kind = "valid" /\ req[s].existed)
      => req[s].status = 200

\* an existing user's request answered after a malformed price body, a
\* missing news API key and a failed insight call
C2_OutageAnswered200 ==
  /\ req["a"].pc = "done" /\ req["a"].cred.kind = "valid" /\ req["a"].existed
  /\ req["a"].status = 200
  /\ req["a"].outcome.price = "null"
  /\ req["a"].outcome.news = "nokey"
  /\ req["a"].outcome.insight = "malformed"

\* C3: getCoinPrices, getCryptoNews and generateInsight never reject: called
\* with a list of asset symbols (and a list of content types), each resolves
\* with a result object for every provider outcome and with or without the
\* news API key.
C3_AdaptersNeverReject ==
  (/\ probe.adapter \in AdapterNames
   /\ probe.args.interestedAssets.present
   /\ probe.args.contentTypes.present)
    => probe.result.state = "resolved"

\* the news adapter completed although the provider's body was malformed
C3_MalformedNewsResolved ==
  /\ probe.adapter = "news" /\ probe.key /\ probe.outcome = "malformed"
  /\ probe.args.interestedAssets.present /\ probe.args.contentTypes.present
  /\ Len(probe.args.interestedAssets.list) = MaxAssets
  /\ probe.result.state = "resolved"

\* C4: when the price provider fails, the response's coinPrices section has
\* an empty payload together with a marker (isFallback, error or any field
\* besides coins and updatedAt) that tells it from a successful empty
\* result, and the news and insight sections are populated.
C4_PriceFailureMarked ==
  \A s \in Slots :
    (req[s].status = 200 /\ req[s].outcome.price \in {"error", "null"})
      => /\ req[s].body.coinPrices.coins = <<>>
         /\ DOMAIN req[s].body.coinPrices \ {"coins", "updatedAt"} # {}
         /\ req[s].body.marketNews.news # <<>>
         /\ req[s].body.aiInsight.insight # <<>>

\* C5: every dashboard request of an existing authenticated user that waits
\* on a provider is eventually answered, even when the provider never
\* answers: each outbound call is bounded by a timeout.
C5_EveryRequestAnswered ==
  (req["a"].pc \in Awaiting) ~> (req["a"].pc = "done")

\* C6: the response is sent only after every adapter call of the request has
\* completed: a 200 response is preceded by the completion of the price, the
\* news and the insight call, in that order, and none is still in flight.
C6_RespondsAfterAllAdapters ==
  \A s \in Slots :
    req[s].status = 200
      => /\ req[s].invoked = AdapterNames
         /\ req[s].price # NoResult /\ req[s].news # NoResult
         /\ req[s].insight # NoResult
         /\ req[s].inflight = "none"
         /\ req[s].doneAt.price <= req[s].doneAt.news
         /\ req[s].doneAt.news <= req[s].doneAt.insight

\* a 200 response whose first call failed and whose later calls succeeded
C6_FirstFailedOthersRan ==
  /\ req["a"].status = 200
  /\ req["a"].outcome.price = "error"
  /\ req["a"].outcome.news = "ok"
  /\ req["a"].outcome.insight = "ok"
  /\ req["a"].outbound = [price |-> 1, news |-> 1, insight |-> 1]

\* C7: for two answered requests with the same preferences, the section of
\* a provider is the same (up to time stamps) whenever that provider's
\* outcome (and, for the insight, the random choice) is the same, whatever
\* the other providers did.
C7_SectionsIndependent ==
  LET a == req["a"]
      b == req["b"]
  IN (a.status = 200 /\ b.status = 200 /\ a.args = b.args)
       => /\ (a.outcome.price = b.outcome.price
                => a.body.coinPrices.coins = b.body.coinPrices.coins)
          /\ (a.outcome.news = b.outcome.news
                => /\ a.body.marketNews.news = b.body.marketNews.news
                   /\ a.body.marketNews.count = b.body.marketNews.count)
          /\ ((a.outcome.insight = b.outcome.insight /\ a.outcome.rnd = b.outcome.rnd)
                => /\ a.body.aiInsight.insight = b.body.aiInsight.insight
                   /\ a.body.aiInsight.model = b.body.aiInsight.model)

\* two answered requests that differ only in the price provider failing
C7_OnlyPriceDiffers ==
  /\ req["a"].status = 200 /\ req["b"].status = 200
  /\ req["a"].args = req["b"].args
  /\ req["a"].outcome.price = "error" /\ req["b"].outcome.price = "ok"
  /\ req["a"].outcome.news = "ok" /\ req["b"].outcome.news = "ok"
  /\ req["a"].outcome.insight = "ok" /\ req["b"].outcome.insight = "ok"
  /\ req["a"].body.marketNews.news # <<>>

\* C8: an adapter is invoked only for a request with a valid token whose
\* user is in the store; a request without a valid credential is answered
\* 401 and one whose user is not in the store 404, with no adapter call.
C8_AdaptersOnlyForStoredUsers ==
  \A s \in Slots :
    /\ req[s].invoked # {} => (req[s].cred.kind = "valid" /\ req[s].existed)
    /\ (req[s].pc = "done" /\ req[s].cred.kind # "valid") => req[s].status = 401
    /\ (req[s].pc = "done" /\ req[s].cred.kind = "valid" /\ ~req[s].existed)
         => req[s].status = 404

\* C9: for an existing user whose stored preferences have completedOnboarding
\* false (nothing saved yet), the adapters are invoked with exactly the
\* defaults ['BTC','ETH'], ['Market News'] and 'HODLer', never with the
\* stored values.
C9_DefaultsWhenNotOnboarded ==
  \A s \in Slots :
    (req[s].invoked # {} /\ req[s].existed /\ ~req[s].stored.completedOnboarding)
      => req[s].args = [interestedAssets |-> Arr(DefaultAssets),
                        contentTypes |-> Arr(DefaultContentTypes),
                        investorType |-> DefaultInvestorType]

\* a request of a user who never saved preferences has reached the adapters
C9_NotOnboardedServed ==
  /\ req["a"].invoked = AdapterNames /\ req["a"].existed
  /\ req["a"].stored = SchemaPreferences
  /\ req["a"].args.interestedAssets = Arr(<<"BTC", "ETH">>)
  /\ req["a"].status = 200

\* C10: after a successful POST or PUT /api/user/preferences, the user's
\* next GET /api/dashboard passes the saved interestedAssets, investorType
\* and contentTypes to the adapters, not the defaults.
C10_SavedPreferencesUsed ==
  \A s \in Slots :
    (req[s].invoked # {} /\ req[s].existed /\ req[s].stored.completedOnboarding)
      => /\ req[s].args.interestedAssets = Arr(req[s].stored.interestedAssets)
         /\ req[s].args.investorType = req[s].stored.investorType
         /\ req[s].args.contentTypes = Arr(req[s].stored.contentTypes)

(***************************************************************************)
(* Meme catalog (meme.service.js); no route of the server reads it         *)
(***************************************************************************)
M(id, url, title, tags) == [id |-> id, url |-> url, title |-> title, tags |-> tags]

CRYPTO_MEMES ==
  << M("meme-1", "https://images.unsplash.com/photo-1639762681485-074b7f938ba0?w=600&h=400&fit=crop",
       "HODL Strong", {"HODL", "BTC"}),
     M("meme-2", "https://images.unsplash.com/photo-1518546305927-5a555bb7020d?w=600&h=400&fit=crop",
       "To The Moon", {"moon", "bullish"}),
     M("meme-3", "https://images.unsplash.com/photo-1611974789855-9c2a0a7236a3?w=600&h=400&fit=crop",
       "When Bitcoin Dips", {"dip", "BTC", "HODL"}),
     M("meme-4", "https://images.unsplash.com/photo-1620321023374-d1a68fbc720e?w=600&h=400&fit=crop",
       "Diamond Hands", {"diamond-hands", "HODL"}),
     M("meme-5", "https://images.unsplash.com/photo-1639322537228-f710d846310a?w=600&h=400&fit=crop",
       "Crypto Life", {"lifestyle", "crypto"}),
     M("meme-6", "https://images.unsplash.com/photo-1621416893542-0e9d0ad80c49?w=600&h=400&fit=crop",
       "Buy The Dip", {"buy", "dip", "accumulate"}),
     M("meme-7", "https://images.unsplash.com/photo-1639762681485-074b7f938ba0?w=600&h=400&fit=crop&auto=format",
       "When You See Green", {"green", "profit", "bullish"}),
     M("meme-8", "https://images.unsplash.com/photo-1518546305927-5a555bb7020d?w=600&h=400&fit=crop&auto=format",
       "ETH To The Moon", {"ETH", "moon", "ethereum"}) >>

\* C11: the meme section of every dashboard response holds one item of the
\* static meme catalog, with a non-empty url and title, whatever the live
\* providers did.
C11_MemeFromCatalog ==
  \A s \in Slots :
    req[s].status = 200
      => /\ req[s].body.meme.url # "" /\ req[s].body.meme.title # ""
         /\ \E i \in 1..Len(CRYPTO_MEMES) :
              /\ req[s].body.meme.url = CRYPTO_MEMES[i].url
              /\ req[s].body.meme.title = CRYPTO_MEMES[i].title

(***************************************************************************)
(* PUT /api/user/:id and the account routes on their own                   *)
(***************************************************************************)
\* const allowedFields = [...]
allowedFields == {"_id", "score", "firstName", "lastName", "profileImg", "account"}

\* request bodies of PUT /api/user/:id: allowed fields next to fields the
\* handler must not pass on
UserUpdates ==
  {[score |-> 50, role |-> "admin", isAdmin |-> TRUE,
    preferences |-> [interestedAssets |-> <<>>, investorType |-> "Whale",
                     contentTypes |-> <<"Bogus">>, completedOnboarding |-> TRUE]],
   [firstName |-> "Zed", lastName |-> "Quinn", email |-> "zed@x.io",
    password |-> "plain"],
   [_id |-> "admin", score |-> 50]}

\* a filter that also lets `password` through, stored as the body gave it
filteredUpdates_withPassword(updates) ==
  [key \in (allowedFields \cup {"password"}) \cap DOMAIN updates |->
     IF key = "password" THEN <<"plain", updates[key]>> ELSE updates[key]]

\* a filter that also lets `role` and `isAdmin` through
filteredUpdates_withRole(updates) ==
  [key \in (allowedFields \cup {"role", "isAdmin"}) \cap DOMAIN updates |-> updates[key]]

\* for (const key of allowedFields) if (updates.hasOwnProperty(key)) ...
filteredUpdates(updates) ==
  [key \in allowedFields \cap DOMAIN updates |-> updates[key]]

\* userStore.update: findByIdAndUpdate(id, { $set: updates }, { new: true });
\* a $set of another _id is refused by MongoDB (_id is immutable), the catch
\* returns null and nothing is written
update(id, updates) ==
  IF "_id" \in DOMAIN updates /\ updates._id # id
  THEN users
  ELSE [users EXCEPT ![id] =
          [f \in DOMAIN @ |-> IF f \in DOMAIN updates THEN updates[f] ELSE @[f]]]

\* PUT /api/user/:id
UpdateUser(cred, id, updates) ==
  /\ verifyTokenMiddleware(cred) = ""
  /\ users[id].kind = "object"
  /\ users' = update(id, filteredUpdates(updates))
  /\ UNCHANGED <<everIds, tokens, apiKey, req, probe, prefReply, feedbackStore, Feedback, fbReply, signups>>

\* signup, login and the /api/user routes, in any order
NextAccount ==
  \/ \E email \in Emails : Signup(email, "pw1")
  \/ \E email \in Emails, password \in Passwords : Login(email, password)
  \/ \E cred \in Credentials, id \in UserIds : DeleteUser(cred, id)
  \/ \E cred \in Credentials, body \in PrefBodies : PostPreferences(cred, body)
  \/ \E cred \in Credentials, body \in PrefBodies : PutPreferences(cred, body)
  \/ \E cred \in Credentials : GetPreferences(cred)
  \/ \E cred \in Credentials, id \in UserIds, updates \in UserUpdates :
       UpdateUser(cred, id, updates)

SpecAccount == Init /\ [][NextAccount]_vars

(***************************************************************************)
(* Preferences: round trip, validation, stored invariant                   *)
(***************************************************************************)
\* the preference object a valid body describes once onboarding is complete
SavedFrom(body) ==
  [interestedAssets |-> body.interestedAssets.list,
   investorType |-> body.investorType,
   contentTypes |-> body.contentTypes.list,
   completedOnboarding |-> TRUE]

\* a POST /preferences answered 200 whose user no later request has altered
PostStands ==
  /\ prefReply.route = "POST /preferences"
  /\ prefReply.status = 200
  /\ users[prefReply.cred.userId].kind = "object"
  /\ users[prefReply.cred.userId].preferences = prefReply.response.preferences

\* C12: round trip: when a POST /api/user/preferences was answered 200 and the
\* same user then reads GET /api/user/preferences, the GET is answered 200 with
\* the three fields of the posted body and completedOnboarding = true.
C12_RoundTrip ==
  [][(/\ PostStands
      /\ prefReply'.route = "GET /preferences"
      /\ prefReply'.cred.kind = "valid"
      /\ prefReply'.cred.userId = prefReply.cred.userId)
     => /\ prefReply'.status = 200
        /\ prefReply'.response = [preferences |-> SavedFrom(prefReply.body)]]_vars

\* a GET answered with the two-asset preferences a POST or PUT stored
C12_ReadBackTwoAssets ==
  /\ prefReply.route = "GET /preferences"
  /\ prefReply.status = 200
  /\ prefReply.response =
       [preferences |-> [interestedAssets |-> <<"BTC", "DOGE">>,
                         investorType |-> "Day Trader",
                         contentTypes |-> <<"Charts">>,
                         completedOnboarding |-> TRUE]]

\* the fields of a body that fail the documented rules, each judged on its own
FailedFields(body) ==
  {f \in {"interestedAssets"} :
     \/ ~body.interestedAssets.present
     \/ ~body.interestedAssets.array
     \/ Len(body.interestedAssets.list) < 1
     \/ Len(body.interestedAssets.list) > 10}
  \cup
  {f \in {"investorType"} :
     \A i \in 1..Len(VALID_INVESTOR_TYPES) : body.investorType # VALID_INVESTOR_TYPES[i]}
  \cup
  {f \in {"contentTypes"} :
     \/ ~body.contentTypes.present
     \/ Len(body.contentTypes.list) < 1
     \/ Len(body.contentTypes.list) > 6
     \/ \E i \in 1..Len(body.contentTypes.list) :
          \A j \in 1..Len(VALID_CONTENT_TYPES) :
            body.contentTypes.list[i] # VALID_CONTENT_TYPES[j]}

\* the last preference request was a POST or PUT by a stored, authenticated user
SaveByStoredUser ==
  /\ prefReply.route \in {"POST /preferences", "PUT /preferences"}
  /\ prefReply.cred.kind = "valid"
  /\ prefReply.stored # NoPreferences

\* C13: a POST or PUT /api/user/preferences whose body fails validation is
\* answered 400, every failed field is named by one of the errors of the
\* message, and the user's stored preferences (completedOnboarding included)
\* are what they were before the request.
C13_InvalidBodyRejected ==
  (SaveByStoredUser /\ FailedFields(prefReply.body) # {})
    => /\ prefReply.status = 400
       /\ prefReply.response.message[1] = "Validation error"
       /\ \A f \in FailedFields(prefReply.body) :
            \E i \in 1..Len(prefReply.response.errors) :
              prefReply.response.errors[i].field = f
       /\ users[prefReply.cred.userId].kind = "object"
            => users[prefReply.cred.userId].preferences = prefReply.stored

\* an onboarded user's save with two failing fields was answered 400
C13_TwoFieldsRejected ==
  /\ SaveByStoredUser
  /\ Cardinality(FailedFields(prefReply.body)) = 2
  /\ prefReply.status = 400
  /\ prefReply.stored.completedOnboarding
  /\ users[prefReply.cred.userId].kind = "object"

\* C14: in every reachable state, a stored user whose completedOnboarding is
\* true has 1 to 10 interestedAssets, an investorType of the fixed enum and 1 to
\* 6 contentTypes, each one of the valid tags.
C14_OnboardedPreferencesValid ==
  \A u \in UserIds :
    (users[u].kind = "object" /\ users[u].preferences.completedOnboarding)
      => /\ Len(users[u].preferences.interestedAssets) \in 1..10
         /\ \E i \in 1..Len(VALID_INVESTOR_TYPES) :
              users[u].preferences.investorType = VALID_INVESTOR_TYPES[i]
         /\ Len(users[u].preferences.contentTypes) \in 1..6
         /\ \A i \in 1..Len(users[u].preferences.contentTypes) :
              \E j \in 1..Len(VALID_CONTENT_TYPES) :
                users[u].preferences.contentTypes[i] = VALID_CONTENT_TYPES[j]

\* an onboarded user who was afterwards changed through PUT /api/user/:id
C14_OnboardedThenUpdated ==
  \E u \in UserIds :
    /\ users[u].kind = "object"
    /\ users[u].preferences.completedOnboarding
    /\ users[u].score = 50
    /\ users[u].firstName = "Zed"

(***************************************************************************)
(* The fallback news generator called on its own                           *)
(***************************************************************************)
\* longest list of which every combination of symbols is tried
MaxNewsList == 3

\* longer lists: four currencies with templates of their own or without,
\* a currency repeated before another one, and ten symbols
LongLists ==
  {<<"BTC", "ETH", "SOL", "DOGE">>,
   <<"BTC", "BTC", "BTC", "BTC", "ETH">>,
   <<"BTC", "ETH", "SOL", "DOGE", "btc", "BTC", "ETH", "SOL", "DOGE", "btc">>}

FallbackInputs ==
  {Missing} \cup {Arr(l) : l \in SeqsUpTo(Symbols, MaxNewsList) \cup LongLists}

\* the default parameter: currencies = ['BTC', 'ETH']
FallbackCurrencies(currencies) ==
  IF currencies.present THEN currencies.list ELSE <<"BTC", "ETH">>

\* one call generateFallbackNews(currencies)
ProbeFallbackNews ==
  /\ probe.adapter = "none"
  /\ probe' = [probe EXCEPT !.adapter = "fallbackNews",
                 !.result = [state |-> "returned",
                             value |-> generateFallbackNews(
                                         FallbackCurrencies(probe.args.interestedAssets))]]
  /\ UNCHANGED <<users, everIds, tokens, apiKey, req, prefReply, feedbackStore, Feedback, fbReply, signups>>

InitFallbackNews ==
  /\ users = [u \in UserIds |-> IF u = "admin" THEN AdminUser ELSE Null]
  /\ everIds = {"admin"}
  /\ tokens = {}
  /\ apiKey = FALSE
  /\ req = [s \in Slots |-> IdleRequest]
  /\ prefReply = PrefIdle
  /\ feedbackStore = <<>>
  /\ Feedback = <<>>
  /\ fbReply = FbIdle
  /\ signups = NoSignups
  /\ \E currencies \in FallbackInputs :
       probe = [IdleProbe EXCEPT !.args.interestedAssets = currencies]

SpecFallbackNews == InitFallbackNews /\ [][ProbeFallbackNews]_vars

\* generateFallbackNews has returned for a list the caller passed
FallbackReturned ==
  /\ probe.adapter = "fallbackNews"
  /\ probe.args.interestedAssets.present

\* C15: for every list of 1 to 10 asset symbols generateFallbackNews returns
\* 1 to 10 articles, each with a non-empty title, and no article is newer
\* than one before it in the list (publishedAt counts the hours before now,
\* so it never decreases along the list).
C15_FallbackNewsShape ==
  (FallbackReturned /\ Len(probe.args.interestedAssets.list) \in 1..10)
    => /\ Len(probe.result.value) \in 1..10
       /\ \A i \in 1..Len(probe.result.value) : probe.result.value[i].title # ""
       /\ \A i \in 1..Len(probe.result.value) : \A j \in i..Len(probe.result.value) :
            probe.result.value[i].publishedAt <= probe.result.value[j].publishedAt

\* the list whose general articles are pushed after older per-currency ones
C15_SortedAfterFill ==
  /\ FallbackReturned
  /\ probe.args.interestedAssets.list = <<"BTC", "BTC", "BTC", "BTC", "ETH">>
  /\ Len(probe.result.value) = 10

\* C16: the fallback deduplicates by title: for every list of asset symbols
\* no two articles returned by generateFallbackNews have the same title.
C16_FallbackTitlesDistinct ==
  FallbackReturned
    => \A i \in 1..Len(probe.result.value) : \A j \in 1..Len(probe.result.value) :
         probe.result.value[i].title = probe.result.value[j].title => i = j

(***************************************************************************)
(* Fallback content, symbol mapping and malformed provider answers         *)
(***************************************************************************)
\* generateInsight was called with lists and its provider call failed
InsightProviderFailed ==
  /\ probe.adapter = "insight"
  /\ probe.outcome = "error"
  /\ probe.args.interestedAssets.present
  /\ probe.args.contentTypes.present

\* C17: for every non-empty list of asset symbols and every investor type of
\* the fixed enum, the insight generateInsight returns when the provider call
\* fails is a non-empty text that contains at least one of the supplied symbols.
C17_FallbackInsightNamesAsset ==
  (/\ InsightProviderFailed
   /\ Len(probe.args.interestedAssets.list) > 0
   /\ \E k \in 1..Len(VALID_INVESTOR_TYPES) :
        probe.args.investorType = VALID_INVESTOR_TYPES[k])
    => /\ probe.result.state = "resolved"
       /\ probe.result.value.model = "fallback"
       /\ \E i \in 1..Len(probe.result.value.insight) : probe.result.value.insight[i] # ""
       /\ \E i \in 1..Len(probe.result.value.insight) :
            \E j \in 1..Len(probe.args.interestedAssets.list) :
              probe.result.value.insight[i] = probe.args.interestedAssets.list[j]

\* the second template was drawn for a day trader holding an unmapped symbol
C17_FallbackForDoge ==
  /\ InsightProviderFailed
  /\ probe.args.interestedAssets.list = <<"DOGE">>
  /\ probe.args.investorType = "Day Trader"
  /\ probe.rnd = 1
  /\ probe.result.state = "resolved"

\* a preference field the caller left out
PreferenceMissing ==
  \/ ~probe.args.interestedAssets.present
  \/ ~probe.args.contentTypes.present
  \/ probe.args.investorType = "undefined"

\* the adapter ran its fallback generator
FallbackTaken ==
  \/ probe.adapter = "news" /\ (~probe.key \/ probe.outcome \in {"error", "timeout"})
  \/ probe.adapter = "insight" /\ probe.outcome = "error"

\* C18: the news and insight fallback generators do not throw when
\* preferences are missing: with interestedAssets, investorType or
\* contentTypes absent the adapter still resolves, and its fallback content
\* (the news list, the insight text) is not empty.
C18_FallbacksTolerateMissing ==
  (FallbackTaken /\ PreferenceMissing)
    => /\ probe.result.state = "resolved"
       /\ probe.adapter = "news" => Len(probe.result.value.news) > 0
       /\ probe.adapter = "insight" =>
            \E i \in 1..Len(probe.result.value.insight) :
              probe.result.value.insight[i] # ""

\* the provider identifiers of the symbols of `list` that have one
MappedIds(list) ==
  {coinIdMap[k] : k \in {k \in DOMAIN coinIdMap :
                          \E i \in 1..Len(list) : ToUpper(list[i]) = k}}

\* getCoinPrices was called with a list of symbols
PriceProbed == probe.adapter = "price" /\ probe.args.interestedAssets.present

\* C19: getCoinPrices drops the symbols without a provider identifier rather
\* than failing: the outbound request names exactly the identifiers of the
\* mapped symbols and an answered call resolves without an error marker; when
\* no symbol maps, no call goes out and the result is an empty coin list
\* without an error marker.
C19_UnmappedSymbolsDropped ==
  PriceProbed =>
    LET expected == MappedIds(probe.args.interestedAssets.list)
    IN IF expected = {}
       THEN /\ ~probe.sent.called
            /\ probe.result = Resolved([coins |-> <<>>])
       ELSE /\ probe.sent.called
            /\ Range(probe.sent.ids) = expected
            /\ probe.outcome = "ok" =>
                 /\ probe.result.state = "resolved"
                 /\ "error" \notin DOMAIN probe.result.value
                 /\ {probe.result.value.coins[i].id :
                       i \in 1..Len(probe.result.value.coins)} = expected

\* a mapped and an unmapped symbol together: only bitcoin was asked for
C19_DogeDroppedBitcoinAsked ==
  /\ PriceProbed
  /\ probe.args.interestedAssets.list = <<"DOGE", "btc">>
  /\ probe.sent = [called |-> TRUE, ids |-> <<"bitcoin">>]
  /\ probe.outcome = "ok"

\* the result of the probed adapter had the provider call failed instead
ResultOnTransportError ==
  IF probe.adapter = "price"
  THEN getCoinPrices(probe.args.interestedAssets, "error")
  ELSE IF probe.adapter = "news"
  THEN getCryptoNews(probe.args.interestedAssets, probe.args.contentTypes,
                     probe.key, "error")
  ELSE generateInsight(probe.args, "error", probe.rnd, 0)

\* the provider answered a call, and an expected field was missing: no
\* `results` (news), no message content in the first choice (insight), no
\* `usd` price for a coin (price)
MalformedAnswer ==
  /\ probe.args.interestedAssets.present
  /\ probe.args.contentTypes.present
  /\ \/ probe.adapter = "news" /\ probe.key /\ probe.outcome = "malformed"
     \/ probe.adapter = "insight" /\ probe.outcome = "nocontent"
     \/ probe.adapter = "price" /\ probe.sent.called /\ probe.outcome = "nousd"

\* C20: a malformed provider response is treated identically to a transport
\* error: the adapter returns what it returns when the call fails, fallback
\* content together with its error marker.
C20_MalformedLikeTransportError ==
  MalformedAnswer
    => /\ probe.result = ResultOnTransportError
       /\ "error" \in DOMAIN probe.result.value

(***************************************************************************)
(* Section time stamps and outbound calls of one dashboard request         *)
(***************************************************************************)
\* C21: the time stamp of each section of a dashboard response is the time
\* at which that section's adapter call completed: coinPrices.updatedAt the
\* completion of getCoinPrices, marketNews.updatedAt that of getCryptoNews,
\* aiInsight.generatedAt that of generateInsight.
C21_StampsAreCompletionTimes ==
  \A s \in Slots :
    req[s].status = 200
      => /\ req[s].body.coinPrices.updatedAt = req[s].doneAt.price
         /\ req[s].body.marketNews.updatedAt = req[s].doneAt.news
         /\ req[s].body.aiInsight.generatedAt = req[s].doneAt.insight

\* C22: no retries: within one dashboard request each adapter issues at most
\* one outbound call to its provider, whether the call succeeds or fails.
C22_AtMostOneCallPerAdapter ==
  \A s \in Slots : \A a \in AdapterNames : req[s].outbound[a] <= 1

\* price and insight both failed and the request was answered: one call each
C22_FailedCallsNotRepeated ==
  /\ req["a"].status = 200
  /\ req["a"].outcome.price = "error"
  /\ req["a"].outcome.news = "error"
  /\ req["a"].outcome.insight = "error"
  /\ \A a \in AdapterNames : req["a"].outbound[a] = 1

(***************************************************************************)
(* The feedback endpoints                                                  *)
(***************************************************************************)
\* a second user has signed up and both users hold a token
InitFeedback ==
  /\ users = [u \in UserIds |->
               IF u = "admin" THEN AdminUser
               ELSE NewUser(u, [email |-> "ann@x.io", password |-> "pw1",
                                firstName |-> "Ann", lastName |-> "Lee"])]
  /\ everIds = UserIds
  /\ tokens = UserIds
  /\ apiKey = FALSE
  /\ req = [s \in Slots |-> IdleRequest]
  /\ probe = IdleProbe
  /\ prefReply = PrefIdle
  /\ feedbackStore = <<>>
  /\ Feedback = <<>>
  /\ fbReply = FbIdle
  /\ signups = NoSignups

\* the feedback endpoints and DELETE /api/user/:id, in any order
NextFeedback ==
  \/ \E cred \in FeedbackCredentials, id \in UserIds : DeleteUser(cred, id)
  \/ \E cred \in FeedbackCredentials, body \in FeedbackBodies : PostFeedback(cred, body)
  \/ \E cred \in FeedbackCredentials, body \in FeedbackBodies :
       PostFeedbackInMemory(cred, body)
  \/ \E cred \in FeedbackCredentials, body \in UserFeedbackBodies :
       PostUserFeedback(cred, body)
  \/ \E cred \in FeedbackCredentials, query \in FeedbackQueries : GetFeedback(cred, query)
  \/ \E cred \in FeedbackCredentials : GetFeedbackInMemory(cred)
  \/ \E cred \in FeedbackCredentials, path \in UserPaths :
       \E query \in IF path = "/feedback" THEN FeedbackQueries
                     ELSE {[section |-> "", limit |-> 50]} :
         GetUserPath(cred, path, query)

SpecFeedback == InitFeedback /\ [][NextFeedback]_vars

\* the section and the comment a submission names, in either body format
SubmittedSection(body) ==
  IF "section" \in DOMAIN body THEN body.section ELSE body.sectionType
SubmittedComment(body) ==
  IF "comment" \in DOMAIN body THEN body.comment ELSE body.metadata.comment

\* the last feedback request was a submission by an authenticated caller
\* whose type or vote was acceptable
SubmissionAnswered ==
  /\ fbReply.route \in {"POST /api/feedback", "POST /api/user/feedback"}
  /\ fbReply.cred.kind = "valid"
  /\ "type" \in DOMAIN fbReply.body => fbReply.body.type \in {"thumbs_up", "thumbs_down"}
  /\ "vote" \in DOMAIN fbReply.body => fbReply.body.vote \in {"up", "down"}

\* the reply is a validation error and nothing was stored
RejectedUnstored ==
  /\ fbReply.status = 400
  /\ Len(Feedback) + Len(feedbackStore) = fbReply.before

\* C23: on POST /api/feedback and POST /api/user/feedback a submission whose
\* section is none of coinPrices, marketNews, aiInsight, meme is answered
\* with a validation error whose message lists the four section names, one
\* whose comment is longer than 500 characters is answered with a validation
\* error, and in both cases no feedback record is stored.
C23_BadFeedbackRejected ==
  /\ (/\ SubmissionAnswered
      /\ \A i \in 1..Len(FeedbackSections) :
           SubmittedSection(fbReply.body) # FeedbackSections[i])
       => /\ RejectedUnstored
          /\ \A i \in 1..Len(FeedbackSections) :
               \E k \in 1..Len(fbReply.response.message) :
                 fbReply.response.message[k] = FeedbackSections[i]
  /\ (/\ SubmissionAnswered
      /\ SubmittedComment(fbReply.body).kind = "string"
      /\ SubmittedComment(fbReply.body).length > 500)
       => RejectedUnstored

\* C24: feedback records are append-only: whatever request is served, every
\* record that was stored is still stored afterwards, in the same place and
\* with the same userId, type, section, contentId, comment and createdAt.
C24_FeedbackAppendOnly ==
  [][/\ Len(Feedback') >= Len(Feedback)
     /\ \A i \in 1..Len(Feedback) : Feedback'[i] = Feedback[i]
     /\ Len(feedbackStore') >= Len(feedbackStore)
     /\ \A i \in 1..Len(feedbackStore) : feedbackStore'[i] = feedbackStore[i]]_vars

\* a user's record outlived the deletion of that user and a later submission
C24_RecordOutlivesUser ==
  /\ Len(Feedback) = 2
  /\ Feedback[1].userId = "u1"
  /\ Feedback[2].userId = "admin"
  /\ users["u1"].kind = "null"

(***************************************************************************)
(* Stored users: passwords, emails, the fields PUT /api/user/:id may set   *)
(***************************************************************************)
\* C25: after any sequence of signup and user-update requests no stored user
\* holds a plaintext password: the persisted `password` is a bcrypt hash.
C25_PasswordsHashed ==
  \A u \in UserIds :
    users[u].kind = "object"
      => \E password \in Passwords \cup {"admin123", "plain"} :
           users[u].password = bcryptHash(password)

\* a signed-up user was updated with a body that carried a password
C25_UpdatedUserKeepsHash ==
  /\ users["u1"].kind = "object"
  /\ users["u1"].firstName = "Zed"
  /\ users["u1"].password = bcryptHash("pw1")

\* the userStore starts with the default admin, the in-memory userService empty
InitSignup ==
  /\ signups \in {[NoSignups EXCEPT !.store = store] : store \in UserStores}
  /\ users = [u \in UserIds |->
                IF u = "admin" /\ signups.store = "mongo" THEN AdminUser ELSE Null]
  /\ everIds = {u \in UserIds : users[u].kind = "object"}
  /\ tokens = {}
  /\ apiKey = FALSE
  /\ req = [s \in Slots |-> IdleRequest]
  /\ probe = IdleProbe
  /\ prefReply = PrefIdle
  /\ feedbackStore = <<>>
  /\ Feedback = <<>>
  /\ fbReply = FbIdle

NextSignup ==
  \/ \E r \in SignupRequests, email \in SignupEmails \cup Emails : SignupFindByEmail(r, email)
  \/ \E r \in SignupRequests : SignupSave(r)
  \/ \E r \in SignupRequests, email \in SignupEmails \cup Emails : SignupGetByEmail(r, email)
  \/ \E r \in SignupRequests : SignupHash(r)
  \/ \E r \in SignupRequests : SignupPush(r)
  \/ \E cred \in FeedbackCredentials, id \in UserIds : DeleteUser(cred, id)

SpecSignup == InitSignup /\ [][NextSignup]_vars

\* C26: after any interleaving of concurrent signup requests no two stored
\* users have the same email, and a signup whose email is registered when it
\* completes is answered 400 'User with this email already exists' and
\* creates no user.
C26_EmailsUnique ==
  /\ \A u, v \in UserIds :
       (users[u].kind = "object" /\ users[v].kind = "object"
          /\ users[u].email = users[v].email) => u = v
  /\ \A r \in SignupRequests :
       (signups.inflight[r].pc = "done" /\ signups.inflight[r].registered)
         => /\ signups.inflight[r].status = 400
            /\ signups.inflight[r].message = "User with this email already exists"
            /\ signups.inflight[r].created = ""

\* the same statement for the Mongoose userStore alone
C26_EmailsUniqueInMongo == signups.store = "mongo" => C26_EmailsUnique

\* C27: an authenticated GET /api/user/feedback is answered by the feedback
\* history handler (200 with the caller's feedback list), not by the handler
\* of GET /api/user/:id.
C27_FeedbackHistoryRouted ==
  (fbReply.route = "GET /api/user/feedback" /\ fbReply.cred.kind = "valid")
    => /\ fbReply.handler = "/feedback"
       /\ fbReply.status = 200
       /\ "feedback" \in DOMAIN fbReply.response

\* the stored records GET /api/feedback owes to a caller, oldest first: the
\* caller's own, of the asked section when a valid one is given
OwedTo(userId, query) ==
  SelectSeq(Feedback,
            LAMBDA f : /\ f.userId = userId
                       /\ query.section \in Range(FeedbackSections)
                            => f.section = query.section)

NextProfile ==
  \/ \E email \in Emails : Signup(email, "pw1")
  \/ \E email \in Emails, password \in Passwords : Login(email, password)
  \/ \E cred \in Credentials, id \in UserIds : DeleteUser(cred, id)
  \/ \E cred \in LoggedIn : PostPreferences(cred, OnboardingBody)
  \/ \E cred \in Credentials, id \in UserIds, updates \in UserUpdates :
       UpdateUser(cred, id, updates)

SpecProfile == Init /\ [][NextProfile]_vars

C30_CountIsLengthAtMostTen ==
  (probe.adapter = "news" /\ probe.result.state = "resolved")
    => LET result == probe.result.value
           live == probe.key /\ probe.outcome \in {"ok", "empty", "many"}
           results == LiveResults(probe.outcome)
       IN /\ result.count = Len(result.news)
          /\ Len(result.news) <= MaxArticles
          /\ live <=> "error" \notin DOMAIN result
          /\ live => /\ Len(result.news) = Min(Len(results), MaxArticles)
                     /\ \A i \in 1..Len(result.news) :
                          /\ result.news[i].id = results[i].id
                          /\ result.news[i].title = results[i].title
                          /\ result.news[i].publishedAt = results[i].published_at

\* the provider answered with twelve articles and ten were returned
C30_TwelveCutToTen ==
  /\ probe.adapter = "news"
  /\ probe.key
  /\ probe.outcome = "many"
  /\ probe.result.state = "resolved"
  /\ probe.result.value.count = MaxArticles
  /\ probe.result.value.news[MaxArticles].id = "m10"

====
